---------------------------- MODULE Spec2Model ----------------------------
(***************************************************************************)
(* A model of the OOK48 receive / transmit core of RP2040_OOK48_Headless.  *)
(*                                                                         *)
(*   Spec        the two-core OOK48 receive path: RxTick on core 0, the    *)
(*               PPS and DMA interrupts that preempt it, loop1 on core 1.  *)
(*   SpecDecode  decodeCache as a function of the tone cache.              *)
(*   SpecCodec   encode / TxInit and the decode4from8 lookup.              *)
(***************************************************************************)
EXTENDS Integers, Sequences, FiniteSets, TLC

VARIABLES
    \* ---- core 0: RxTick and the interrupts that preempt it ----
    pc0,            \* position of loop() / RxTick / decodeCache on core 0
    reg0,           \* register copy of cachePoint held across cachePoint++
    cachePoint,     \* uint16_t cachePoint
    cacheSize,      \* uint16_t cacheSize
    halfRate,       \* bool halfRate
    dmaReady,       \* bool dmaReady
    dmaIdx,         \* transfers completed since the DMA was last restarted
    sinceDma,       \* transfers completed since lastDma = millis()
    magnitude,      \* provenance of the spectrum in magnitude[]
    toneCache,      \* provenance of each column of toneCache[][]
    sftMagnitudes,  \* float sftMagnitudes[CACHESIZE]
    decoded,        \* char decoded
    PPSActive,      \* uint8_t PPSActive
    ppsTimer,       \* PPSIntervalTimer armed by ppsISR
    rxRetard,       \* settings.rxRetard is non-zero
    \* ---- core 1: loop1 ----
    pc1,            \* position of loop1 on core 1
    reg1,           \* register copy of PPSActive held across PPSActive--
    gpsSec,         \* int gpsSec
    lastSec,        \* int lastSec
    fifo,           \* rp2040.fifo, core 0 -> core 1
    \* ---- history of the run (not program state) ----
    hist,
    \* ---- pure-function specifications ----
    fx              \* the function under study, its input and its result

vars == << pc0, reg0, cachePoint, cacheSize, halfRate, dmaReady, dmaIdx,
           sinceDma, magnitude, toneCache, sftMagnitudes, decoded,
           PPSActive, ppsTimer, rxRetard, pc1, reg1, gpsSec, lastSec,
           fifo, hist, fx >>

rxVars == << pc0, reg0, cachePoint, cacheSize, halfRate, dmaReady, dmaIdx,
             sinceDma, magnitude, toneCache, sftMagnitudes, decoded,
             PPSActive, ppsTimer, rxRetard, pc1, reg1, gpsSec, lastSec,
             fifo, hist >>

---------------------------------------------------------------------------
(* Program constants                                                       *)

CACHESIZE == 8

Slots == 0 .. (CACHESIZE - 1)

Columns == 0 .. (CACHESIZE * 2 - 1)

UNK == 126

CR == 13

LF == 10

NORMALMODE == "NORMALMODE"

ALTMODE == "ALTMODE"

RAINSCATTERMODE == "RAINSCATTERMODE"

DecodeModes == { NORMALMODE, ALTMODE, RAINSCATTERMODE }

\* Stands for <float.h>'s FLT_MAX: larger than every modelled magnitude
FLT_MAX == 1000000

\* The receive window, scaled down from 68 bins, tone bin 34, tolerance 11:
\* bins rxTone - toneTolerance .. rxTone + toneTolerance - 1 are searched for
\* the tone, the others only count in rainscatter mode.
numberOfBins == 4

rxTone == 2

toneTolerance == 1

Bins == 0 .. (numberOfBins - 1)

encode4from8 ==
    << 15, 23, 27, 29, 30, 39, 43, 45, 46, 51,
       53, 54, 57, 58, 60, 71, 75, 77, 78, 83,
       85, 86, 89, 90, 92, 99, 101, 102, 105, 106,
       108, 113, 114, 116, 120, 135, 139, 141, 142, 147,
       149, 150, 153, 154, 156, 163, 165, 166, 169, 170,
       172, 177, 178, 180, 184, 195, 197, 198, 201, 202,
       204, 209, 210, 212, 216, 225, 226, 228, 232, 240 >>

decode4from8 ==
    << 0,0,0,0,0,0,0,0,0,0,
       0,0,0,0,0,13,0,0,0,0,
       0,0,0,32,0,0,0,33,0,34,
       35,0,0,0,0,0,0,0,0,36,
       0,0,0,37,0,38,39,0,0,0,
       0,40,0,41,42,0,0,43,44,0,
       45,0,0,0,0,0,0,0,0,0,
       0,46,0,0,0,47,0,48,49,0,
       0,0,0,50,0,51,52,0,0,53,
       54,0,55,0,0,0,0,0,0,56,
       0,57,58,0,0,59,60,0,61,0,
       0,0,0,62,63,0,64,0,0,0,
       65,0,0,0,0,0,0,0,0,0,
       0,0,0,0,0,66,0,0,0,67,
       0,68,69,0,0,0,0,70,0,71,
       72,0,0,73,74,0,75,0,0,0,
       0,0,0,76,0,77,78,0,0,79,
       80,0,81,0,0,0,0,82,83,0,
       84,0,0,0,85,0,0,0,0,0,
       0,0,0,0,0,86,0,87,88,0,
       0,89,90,0,91,0,0,0,0,92,
       93,0,94,0,0,0,95,0,0,0,
       0,0,0,0,0,126,126,0,126,0,
       0,0,126,0,0,0,0,0,0,0,
       126,0,0,0,0,0,0,0,0,0,
       0,0,0,0,0,0 >>

---------------------------------------------------------------------------
(* Bit arithmetic on bytes                                                 *)

RECURSIVE Pow2(_)
Pow2(n) == IF n = 0 THEN 1 ELSE 2 * Pow2(n - 1)

\* bit k of byte b, k = 0 the least significant
BitOf(b, k) == (b \div Pow2(k)) % 2

\* number of bits set in byte b
PopCount(b) == Cardinality({ k \in 0 .. 7 : BitOf(b, k) = 1 })

RECURSIVE SumOver(_, _)
SumOver(S, f) ==
    IF S = {} THEN 0
    ELSE LET x == CHOOSE y \in S : TRUE
         IN  f[x] + SumOver(S \ {x}, f)

\* 0x80 >> n for each n of the set, or-ed together; a shift by 8 or more
\* leaves no bit in the byte
ShiftMaskOr(S) == SumOver(S \cap (0 .. 7), [p \in 0 .. 7 |-> Pow2(7 - p)])

---------------------------------------------------------------------------
(* tx: encode, TxInit                                                      *)

\* encodeIndex with the lower-case offset off by one
encodeIndexLowerOff(ch) ==
    CASE ch = CR \/ ch = LF      -> 0
      [] ch >= 32 /\ ch <= 95    -> ch - 31
      [] ch >= 97 /\ ch <= 122   -> ch - 64
      [] OTHER                   -> 69

\* encodeIndex with the upper-case offset off by one
encodeIndexUpperOff(ch) ==
    CASE ch = CR \/ ch = LF      -> 0
      [] ch >= 32 /\ ch <= 95    -> ch - 32
      [] ch >= 97 /\ ch <= 122   -> ch - 63
      [] OTHER                   -> 69

\* the table index v that encode() picks for one character
encodeIndex(ch) ==
    CASE ch = CR \/ ch = LF      -> 0
      [] ch >= 32 /\ ch <= 95    -> ch - 31
      [] ch >= 97 /\ ch <= 122   -> ch - 63
      [] OTHER                   -> 69

\* encode(msg, len, symbols): symbols[i] = encode4from8[v]
encode(msg) == [ i \in 1 .. Len(msg) |-> encode4from8[encodeIndex(msg[i]) + 1] ]

LOCTOKEN == 134

RECURSIVE replaceToken(_, _, _)
\* replaceToken(news, orig, search, rep): copy orig up to its terminator,
\* writing rep for every occurrence of search
replaceToken(orig, search, rep) ==
    IF orig = << >> THEN << >>
    ELSE (IF Head(orig) = search THEN rep ELSE << Head(orig) >>)
         \o replaceToken(Tail(orig), search, rep)

\* TxInit: visualTxMessage = CR, then the stored message with the locator
\* substituted; TxBuffer = encode(visualTxMessage)
TxInitVisual(stored, locator) == << CR >> \o replaceToken(stored, LOCTOKEN, locator)

TxInitBuffer(stored, locator) == encode(TxInitVisual(stored, locator))

\* the key line during bit period k (0..7) of a byte: (byte << k) & 0x80
KeyBit(byte, k) == BitOf(byte, 7 - k)

---------------------------------------------------------------------------
(* rx: decodeCache and its helpers, on a tone cache tc[bin][slot]          *)

RECURSIVE findLargestFrom(_, _, _, _)
findLargestFrom(tc, timeslot, b, max) ==
    IF b >= rxTone + toneTolerance THEN max
    ELSE findLargestFrom(tc, timeslot, b + 1,
                         IF tc[b][timeslot] > max THEN tc[b][timeslot] ELSE max)

\* float findLargest(int timeslot)
findLargest(tc, timeslot) ==
    findLargestFrom(tc, timeslot, rxTone - toneTolerance, 0 - FLT_MAX)

\* float findWidebandPower(int timeslot)
findWidebandPower(tc, timeslot) == SumOver(Bins, [ b \in Bins |-> tc[b][timeslot] ])

RECURSIVE binMax(_, _, _, _, _)
binMax(tc, b, s, cs, max) ==
    IF s >= cs THEN max
    ELSE binMax(tc, b, s + 1, cs, IF tc[b][s] > max THEN tc[b][s] ELSE max)

RECURSIVE binMin(_, _, _, _, _)
binMin(tc, b, s, cs, min) ==
    IF s >= cs THEN min
    ELSE binMin(tc, b, s + 1, cs, IF tc[b][s] < min THEN tc[b][s] ELSE min)

RECURSIVE findBestBinFrom(_, _, _, _, _)
findBestBinFrom(tc, cs, b, bestRange, topBin) ==
    IF b >= rxTone + toneTolerance THEN topBin
    ELSE LET range == binMax(tc, b, 0, cs, 0 - FLT_MAX) - binMin(tc, b, 0, cs, FLT_MAX)
         IN  IF range > bestRange
             THEN findBestBinFrom(tc, cs, b + 1, range, b)
             ELSE findBestBinFrom(tc, cs, b + 1, bestRange, topBin)

\* int findBestBin(void)
findBestBin(tc, cs) == findBestBinFrom(tc, cs, rxTone - toneTolerance, 0, 0)

\* decodeCache, "Build temp[]": temp[i] for i < cacheSize; the cells of
\* temp[CACHESIZE*2] that the loop does not reach keep what the stack held
buildTemp(tc, decodeMode, cs, stack) ==
    LET bestBin == IF decodeMode = ALTMODE THEN findBestBin(tc, cs) ELSE 0
    IN  [ i \in Columns |->
            IF i >= cs THEN stack
            ELSE CASE decodeMode = ALTMODE         -> tc[bestBin][i]
                   [] decodeMode = RAINSCATTERMODE -> findWidebandPower(tc, i)
                   [] OTHER                        -> findLargest(tc, i) ]

\* halfRateSum adding the neighbouring slot instead of the slot 8 later
halfRateSumOffByOne(temp, hr) ==
    [ i \in Columns |-> IF hr /\ i < CACHESIZE THEN temp[i] + temp[i + 7] ELSE temp[i] ]

\* decodeCache, "if(halfRate) temp[i] = temp[i] + temp[i+8]"
halfRateSum(temp, hr) ==
    [ i \in Columns |-> IF hr /\ i < CACHESIZE THEN temp[i] + temp[i + 8] ELSE temp[i] ]

\* the soft magnitudes: temp[0..7] after the half-rate sum
softMagnitudes(tc, decodeMode, cs, hr, stack) ==
    LET t == halfRateSum(buildTemp(tc, decodeMode, cs, stack), hr)
    IN  [ i \in Slots |-> t[i] ]

RECURSIVE sortShift(_, _, _)
\* while(j >= 0 && sorted[j] < key) { sorted[j+1] = sorted[j]; j--; }
\* sorted[j+1] = key;
sortShift(sorted, j, key) ==
    IF j >= 0 /\ sorted[j] < key
    THEN sortShift([ sorted EXCEPT ![j + 1] = sorted[j] ], j - 1, key)
    ELSE [ sorted EXCEPT ![j + 1] = key ]

RECURSIVE sortFrom(_, _)
sortFrom(sorted, i) ==
    IF i >= CACHESIZE THEN sorted
    ELSE sortFrom(sortShift(sorted, i - 1, sorted[i]), i + 1)

\* decodeCache, the insertion sort of sorted[] (descending)
sortDescending(t) == sortFrom(t, 1)

\* confidenceBelow taking the gap between ranks 3 and 4 instead of 4 and 5
confidenceBelowWrongRank(t, thr) ==
    LET sorted == sortDescending(t)
        range  == sorted[0] - sorted[7]
    IN  IF range > 0
        THEN (sorted[2] - sorted[3]) * thr.den < thr.num * range
        ELSE 0 < thr.num

\* decodeCache, "confidence < settings.confidenceThreshold", the threshold
\* given as the fraction thr.num / thr.den:
\*   confidence = (range > 0) ? (sorted[3] - sorted[4]) / range : 0
confidenceBelow(t, thr) ==
    LET sorted == sortDescending(t)
        range  == sorted[0] - sorted[7]
    IN  IF range > 0
        THEN (sorted[3] - sorted[4]) * thr.den < thr.num * range
        ELSE 0 < thr.num

RECURSIVE scanLargest(_, _, _, _)
\* one pass of "for i: if(temp[i] > largest) { largest = temp[i];
\* largestbits[l] = i; }": the index stored, or -1 when none is stored
scanLargest(temp, i, largest, idx) ==
    IF i >= CACHESIZE THEN idx
    ELSE IF temp[i] > largest
         THEN scanLargest(temp, i + 1, temp[i], i)
         ELSE scanLargest(temp, i + 1, largest, idx)

RECURSIVE findLargestBits(_, _, _, _)
\* the four passes; largestbits[l] keeps its uninitialised content junk[l]
\* when a pass stores nothing; temp[largestbits[l]] = 0 after each pass
findLargestBits(temp, l, bits, junk) ==
    IF l >= 4 THEN bits
    ELSE LET found == scanLargest(temp, 0, 0, -1)
             pos   == IF found = -1 THEN junk[l] ELSE found
         IN  findLargestBits(IF pos \in DOMAIN temp
                             THEN [ temp EXCEPT ![pos] = 0 ] ELSE temp,
                             l + 1, [ bits EXCEPT ![l] = pos ], junk)

largestBits(t, junk) == findLargestBits(t, 0, [ l \in 0 .. 3 |-> 0 ], junk)

\* decByte with the shift taken from the other end, 0x01 << largestbits[l]
decByteMirrored(t, junk) ==
    LET bits == largestBits(t, junk)
    IN  ShiftMaskOr({ 7 - bits[l] : l \in 0 .. 3 })

\* decodeCache, "dec = dec | (0x80 >> largestbits[l])"
decByte(t, junk) ==
    LET bits == largestBits(t, junk)
    IN  ShiftMaskOr({ bits[l] : l \in 0 .. 3 })

\* decodeCache, the confidence gate and the table lookup
decodeChar(t, thr, junk) ==
    IF confidenceBelow(t, thr) THEN UNK
    ELSE decode4from8[decByte(t, junk) + 1]

---------------------------------------------------------------------------
(* The receive path at rest: the state after setup() (RxInit, globals)     *)

\* a spectrum that is not in flight between calcSpectrum and saveCache
NoFrame == [ post |-> FALSE, idx |-> 0 ]

\* no column of the tone cache written since the write index was last zeroed
staleCache == [ c \in Columns |-> "stale" ]

\* the surroundings of a run: whether the PPS can drop out once acquired,
\* whether the host sends SET:halfrate, whether settings.rxRetard is set
Quiet == [ gps |-> "steady", halfrate |-> FALSE, retard |-> FALSE ]

NoHist == [ env |-> Quiet, acq |-> 0, grace |-> 0, nmea |-> FALSE, cmds |-> 0 ]

InitRxIn(env) ==
    /\ pc0 = "idle"
    /\ reg0 = 0
    /\ cachePoint = 0
    /\ cacheSize = CACHESIZE
    /\ halfRate = FALSE
    /\ dmaReady = FALSE
    /\ dmaIdx = 0
    /\ sinceDma = 0
    /\ magnitude = NoFrame
    /\ toneCache = staleCache
    /\ sftMagnitudes = [ i \in Slots |-> 0 ]
    /\ decoded = 0
    /\ PPSActive = 0
    /\ ppsTimer = FALSE
    /\ rxRetard = env.retard
    /\ pc1 = "loop"
    /\ reg1 = 0
    /\ gpsSec = -1
    /\ lastSec = 0
    /\ fifo = << >>
    /\ hist = [ NoHist EXCEPT !.env = env ]

InitRx == InitRxIn(Quiet)

---------------------------------------------------------------------------
(* SpecCodec: encode, TxInit, the key line and the hard decode of what was *)
(* keyed                                                                   *)

\* highest character code given to encode()
MaxChar == 127

\* key-down and key-up magnitudes seen by a receiver of a clean signal
KeyLevels == { [ hi |-> 6, lo |-> 0 ], [ hi |-> 2, lo |-> 1 ] }

\* CONFIDENCE_THRESHOLD 0.180f, as a fraction
DefaultThreshold == [ num |-> 9, den |-> 50 ]

NoJunk == [ l \in 0 .. 3 |-> 0 ]

\* stored transmit messages: "CQ TEST\r", the default "EMPTY\r", and
\* "g4 " + locator token + "\r"
MsgCqTest == << 67, 81, 32, 84, 69, 83, 84, 13 >>

MsgEmpty == << 69, 77, 80, 84, 89, 13 >>

MsgLocator == << 103, 52, 32, 134, 13 >>

StoredMessages == { MsgCqTest, MsgEmpty, MsgLocator }

\* qthLocator "IO91WM", cut to settings.locatorLength = 6
Locator == << 73, 79, 57, 49, 87, 77 >>

\* the eight magnitudes a receiver sees while byte is keyed, slot 0 first
KeyedFrame(byte, lv) ==
    [ i \in Slots |-> IF KeyBit(byte, i) = 1 THEN lv.hi ELSE lv.lo ]

InitCodec ==
    /\ InitRx
    /\ \/ \E ch \in 0 .. MaxChar, lv \in KeyLevels :
             fx = [ op |-> "char", phase |-> "start", ch |-> ch, lv |-> lv,
                    byte |-> 0, out |-> 0 ]
       \/ \E m \in StoredMessages, lv \in KeyLevels :
             fx = [ op |-> "msg", phase |-> "start", stored |-> m, lv |-> lv,
                    visual |-> << >>, v |-> << >>, TxBuffer |-> << >>,
                    out |-> << >> ]

\* encode() on a one-character message
EncodeChar ==
    /\ fx.op = "char" /\ fx.phase = "start"
    /\ fx' = [ fx EXCEPT !.phase = "encoded", !.byte = encode(<< fx.ch >>)[1] ]
    /\ UNCHANGED rxVars

\* the byte keyed MSB first and hard-decoded by decodeCache's rule
DecodeChar ==
    /\ fx.op = "char" /\ fx.phase = "encoded"
    /\ fx' = [ fx EXCEPT !.phase = "decoded",
                         !.out = decodeChar(KeyedFrame(fx.byte, fx.lv),
                                            DefaultThreshold, NoJunk) ]
    /\ UNCHANGED rxVars

\* TxInit on a stored message
TxInit ==
    /\ fx.op = "msg" /\ fx.phase = "start"
    /\ fx' = [ fx EXCEPT !.phase = "encoded",
                         !.visual = TxInitVisual(fx.stored, Locator),
                         !.v = [ i \in 1 .. Len(TxInitVisual(fx.stored, Locator)) |->
                                   encodeIndex(TxInitVisual(fx.stored, Locator)[i]) ],
                         !.TxBuffer = TxInitBuffer(fx.stored, Locator) ]
    /\ UNCHANGED rxVars

\* the next byte of TxBuffer keyed and hard-decoded
DecodeNext ==
    /\ fx.op = "msg" /\ fx.phase = "encoded"
    /\ Len(fx.out) < Len(fx.TxBuffer)
    /\ fx' = [ fx EXCEPT !.out = Append(fx.out,
                  decodeChar(KeyedFrame(fx.TxBuffer[Len(fx.out) + 1], fx.lv),
                             DefaultThreshold, NoJunk)) ]
    /\ UNCHANGED rxVars

NextCodec == EncodeChar \/ DecodeChar \/ TxInit \/ DecodeNext

SpecCodec == InitCodec /\ [][NextCodec]_vars

---------------------------------------------------------------------------
(* SpecDecode: decodeCache on tone caches drawn from a bounded family      *)

\* the magnitudes of the tone bin are drawn from { 0, 1, MaxMag }
MaxMag == 6

MagLevels == { 0, 1, MaxMag }

\* what an uninitialised largestbits[l] may hold: a slot of the byte (0, 7)
\* or a value of 8 or more, whose shift leaves the byte
UninitIdx == { 0, 7, 8 }

HalfThreshold == [ num |-> 1, den |-> 2 ]

\* the combinations of interference, half-rate, second half and threshold
\* that the frames are decoded under
Configs ==
    { [ aux |-> "quiet",    hr |-> FALSE, second |-> "same",    thr |-> DefaultThreshold ],
      [ aux |-> "adjacent", hr |-> FALSE, second |-> "same",    thr |-> HalfThreshold ],
      [ aux |-> "wideband", hr |-> FALSE, second |-> "same",    thr |-> DefaultThreshold ],
      [ aux |-> "quiet",    hr |-> TRUE,  second |-> "same",    thr |-> HalfThreshold ],
      [ aux |-> "adjacent", hr |-> TRUE,  second |-> "same",    thr |-> DefaultThreshold ],
      [ aux |-> "wideband", hr |-> TRUE,  second |-> "slipped", thr |-> DefaultThreshold ] }

ToneWindow == (rxTone - toneTolerance) .. (rxTone + toneTolerance - 1)

\* one second of tone cache: the tone bin holds row; "adjacent" puts the
\* mirrored row in the lowest bin of the window; "wideband" puts alternating
\* strong and weak power in every bin outside the window
FirstHalf(row, aux) ==
    [ b \in Bins |-> [ s \in Slots |->
        IF b = rxTone THEN row[s]
        ELSE IF aux = "adjacent" /\ b = rxTone - toneTolerance THEN row[7 - s]
        ELSE IF aux = "wideband" /\ b \notin ToneWindow
             THEN (IF s % 2 = 0 THEN 1 ELSE MaxMag)
        ELSE 0 ] ]

FrameInput(row, aux, hr, second) ==
    LET h == FirstHalf(row, aux)
    IN  [ b \in Bins |-> [ c \in Columns |->
          IF c < CACHESIZE THEN h[b][c]
          ELSE IF ~hr THEN 0
          ELSE IF second = "same" THEN h[b][c - 8]
          ELSE h[b][(c - 8 + 1) % 8] ] ]

InitDecode ==
    /\ InitRx
    /\ \E row \in [ Slots -> MagLevels ], cf \in Configs, dm \in DecodeModes :
          fx = [ op |-> "decode", phase |-> "start",
                 tc |-> FrameInput(row, cf.aux, cf.hr, cf.second),
                 second |-> cf.second,
                 decodeMode |-> dm, halfRate |-> cf.hr,
                 cacheSize |-> IF cf.hr THEN CACHESIZE * 2 ELSE CACHESIZE,
                 thr |-> cf.thr,
                 sft |-> [ i \in Slots |-> 0 ], dec |-> 0, decoded |-> 0 ]

\* the contents largestbits[] may start with, told apart only in the
\* entries that the four passes over t leave unset
JunkFor(t) ==
    LET set == Cardinality({ i \in Slots : t[i] > 0 })
    IN  { j \in [ 0 .. 3 -> UninitIdx \cup { 0 } ] :
            \A l \in 0 .. 3 : l < set => j[l] = 0 }

\* decodeCache up to rp2040.fifo.push(SFTMESSAGE): temp[], the half-rate sum
\* and the copy to sftMagnitudes[]
DecodeSoft ==
    /\ fx.op = "decode" /\ fx.phase = "start"
    /\ fx' = [ fx EXCEPT !.phase = "soft",
                         !.sft = softMagnitudes(fx.tc, fx.decodeMode, fx.cacheSize,
                                                fx.halfRate, 0) ]
    /\ UNCHANGED rxVars

\* decodeCache from the confidence sort to the end: dec and decoded
DecodeHard ==
    /\ fx.op = "decode" /\ fx.phase = "soft"
    /\ \E junk \in JunkFor(fx.sft) :
          fx' = [ fx EXCEPT !.phase = "done",
                            !.dec = decByte(fx.sft, junk),
                            !.decoded = decodeChar(fx.sft, fx.thr, junk) ]
    /\ UNCHANGED rxVars

NextDecode == DecodeSoft \/ DecodeHard

SpecDecode == InitDecode /\ [][NextDecode]_vars

---------------------------------------------------------------------------
(* Spec: the OOK48 receive path.  Core 0 runs loop() -> RxTick; the PPS    *)
(* pin interrupt, the PPS delay timer and the DMA completion interrupt     *)
(* preempt it between any two of its steps.  Core 1 runs loop1: the status *)
(* tick, the fifo dispatcher, the serial commands and the NMEA parser.     *)
(* Time is counted in DMA transfers: 1024 samples at 9216 sa/s, nine to    *)
(* the second.  RxTick is taken to finish a frame before the next transfer *)
(* completes, and consecutive PPS edges to be at least a second apart.     *)

\* DMA transfers per second: SAMPLERATE / NUMBEROFSAMPLES
FramesPerSecond == 9

\* the 250 ms of "millis() - lastDma > 250", in whole DMA transfers
TimeoutFrames == 2

\* entries the inter-core fifo holds before push() blocks
FifoDepth == 2

\* seconds after which gpsSec wraps to 0
SecWrap == 2

\* SET:halfrate commands the host sends in one run
MaxCommands == 1

\* times in one run that a PPS edge comes out of step with the DMA: the
\* first PPS, and each PPS that returns after the signal was lost
MaxAcquisitions == 1

GENPLOT == "GENPLOT"

DRAWSPECTRUM == "DRAWSPECTRUM"

DRAWWATERFALL == "DRAWWATERFALL"

SFTMESSAGE == "SFTMESSAGE"

MESSAGE == "MESSAGE"

\* what the tone bin holds over one character when the decoder runs: a keyed
\* <CR> (slots 4..7 key-down) over a noise floor, or the noise floor alone
RxRows ==
    { [ s \in Slots |-> IF s >= 4 THEN MaxMag ELSE 1 ],
      [ s \in Slots |-> 1 ] }

\* doPPS: the write index chosen from halfRate and gpsSec, reversed
ppsCachePointReversed(hr, sec) ==
    IF (hr = FALSE) \/ (hr /\ (sec % 2 = 0)) THEN 0 ELSE 8

\* doPPS: if ((halfRate == false) || (halfRate & (gpsSec & 0x01)))
\*            cachePoint = 0; else cachePoint = 8;
ppsCachePoint(hr, sec) ==
    IF (hr = FALSE) \/ (hr /\ (sec % 2 = 1)) THEN 0 ELSE 8

\* RxTick: a decode whatever PPSActive holds
ppsGateOpen(p) == TRUE

\* RxTick: if(PPSActive)
ppsGate(p) == p # 0

\* RxTick: (millis() - lastDma) > 250
timedOut == sinceDma >= TimeoutFrames

\* the tone cache as doPPS leaves it: a write index of 0 starts the cache
\* afresh; a write index of 8 keeps the columns, now one second older
ppsCache(cp) ==
    IF cp = 0 THEN staleCache
    ELSE [ c \in Columns |-> IF toneCache[c] = "cur" THEN "prev" ELSE "stale" ]

\* the runs explored: a PPS that can drop out, under a silent host; a steady
\* PPS and a host that switches half-rate; a steady PPS with rx retard set
Environments ==
    { [ gps |-> "lossy",  halfrate |-> FALSE, retard |-> FALSE ],
      [ gps |-> "steady", halfrate |-> TRUE,  retard |-> FALSE ],
      [ gps |-> "steady", halfrate |-> FALSE, retard |-> TRUE ] }

InitSpec ==
    /\ \E env \in Environments : InitRxIn(env)
    /\ fx = [ op |-> "rx" ]

\* RxTick taking every completed transfer, whatever cachePoint holds
RxPollFull ==
    /\ pc0 = "idle"
    /\ cachePoint' = IF timedOut THEN 0 ELSE cachePoint
    /\ toneCache' = IF timedOut THEN staleCache ELSE toneCache
    /\ IF dmaReady
       THEN /\ sinceDma' = 0
            /\ magnitude' = [ post |-> TRUE, idx |-> dmaIdx - 1 ]
            /\ pc0' = "genplot"
       ELSE UNCHANGED << sinceDma, magnitude, pc0 >>
    /\ UNCHANGED << reg0, cacheSize, halfRate, dmaReady, dmaIdx, sftMagnitudes,
                    decoded, PPSActive, ppsTimer, rxRetard, pc1, reg1, gpsSec,
                    lastSec, fifo, hist, fx >>

\* RxTick, "OOK48 path" to calcSpectrum: the timeout reset, the test of
\* dmaReady and cachePoint, lastDma = millis() and the spectrum of the
\* transfer that completed last
RxPoll ==
    /\ pc0 = "idle"
    /\ cachePoint' = IF timedOut THEN 0 ELSE cachePoint
    /\ toneCache' = IF timedOut THEN staleCache ELSE toneCache
    /\ IF dmaReady /\ cachePoint' < cacheSize
       THEN /\ sinceDma' = 0
            /\ magnitude' = [ post |-> TRUE, idx |-> dmaIdx - 1 ]
            /\ pc0' = "genplot"
       ELSE UNCHANGED << sinceDma, magnitude, pc0 >>
    /\ UNCHANGED << reg0, cacheSize, halfRate, dmaReady, dmaIdx, sftMagnitudes,
                    decoded, PPSActive, ppsTimer, rxRetard, pc1, reg1, gpsSec,
                    lastSec, fifo, hist, fx >>

\* rp2040.fifo.push(tag): blocks while the fifo is full
fifoPush(at, tag, next) ==
    /\ pc0 = at
    /\ Len(fifo) < FifoDepth
    /\ fifo' = Append(fifo, tag)
    /\ pc0' = next

PushGenplot ==
    /\ fifoPush("genplot", GENPLOT, "drawspectrum")
    /\ UNCHANGED << reg0, cachePoint, cacheSize, halfRate, dmaReady, dmaIdx,
                    sinceDma, magnitude, toneCache, sftMagnitudes, decoded,
                    PPSActive, ppsTimer, rxRetard, pc1, reg1, gpsSec, lastSec,
                    hist, fx >>

PushDrawSpectrum ==
    /\ fifoPush("drawspectrum", DRAWSPECTRUM, "drawwaterfall")
    /\ UNCHANGED << reg0, cachePoint, cacheSize, halfRate, dmaReady, dmaIdx,
                    sinceDma, magnitude, toneCache, sftMagnitudes, decoded,
                    PPSActive, ppsTimer, rxRetard, pc1, reg1, gpsSec, lastSec,
                    hist, fx >>

PushDrawWaterfall ==
    /\ fifoPush("drawwaterfall", DRAWWATERFALL, "save")
    /\ UNCHANGED << reg0, cachePoint, cacheSize, halfRate, dmaReady, dmaIdx,
                    sinceDma, magnitude, toneCache, sftMagnitudes, decoded,
                    PPSActive, ppsTimer, rxRetard, pc1, reg1, gpsSec, lastSec,
                    hist, fx >>

\* saveCache(): toneCache[i][cachePoint] = magnitude[i]
saveCache ==
    /\ pc0 = "save"
    /\ toneCache' = [ toneCache EXCEPT ![cachePoint] = "cur" ]
    /\ magnitude' = NoFrame
    /\ pc0' = "inc"
    /\ UNCHANGED << reg0, cachePoint, cacheSize, halfRate, dmaReady, dmaIdx,
                    sinceDma, sftMagnitudes, decoded, PPSActive, ppsTimer,
                    rxRetard, pc1, reg1, gpsSec, lastSec, fifo, hist, fx >>

\* cachePoint++, the load
IncLoad ==
    /\ pc0 = "inc"
    /\ reg0' = cachePoint
    /\ pc0' = "store"
    /\ UNCHANGED << cachePoint, cacheSize, halfRate, dmaReady, dmaIdx, sinceDma,
                    magnitude, toneCache, sftMagnitudes, decoded, PPSActive,
                    ppsTimer, rxRetard, pc1, reg1, gpsSec, lastSec, fifo, hist,
                    fx >>

\* cachePoint++, the store; if(cachePoint == cacheSize) if(PPSActive)
IncStore ==
    /\ pc0 = "store"
    /\ cachePoint' = reg0 + 1
    /\ reg0' = 0
    /\ pc0' = IF reg0 + 1 = cacheSize /\ ppsGate(PPSActive)
              THEN "decode" ELSE "clear"
    /\ UNCHANGED << cacheSize, halfRate, dmaReady, dmaIdx, sinceDma, magnitude,
                    toneCache, sftMagnitudes, decoded, PPSActive, ppsTimer,
                    rxRetard, pc1, reg1, gpsSec, lastSec, fifo, hist, fx >>

\* decodeCache up to its push: the soft magnitudes, with no SFTMESSAGE pushed
DecodeCacheSilent ==
    /\ pc0 = "decode"
    /\ \E row \in RxRows :
          sftMagnitudes' =
              softMagnitudes(FrameInput(row, "quiet", halfRate, "same"),
                             NORMALMODE, cacheSize, halfRate, 0)
    /\ pc0' = "message"
    /\ UNCHANGED << reg0, cachePoint, cacheSize, halfRate, dmaReady, dmaIdx,
                    sinceDma, magnitude, toneCache, decoded, PPSActive,
                    ppsTimer, rxRetard, pc1, reg1, gpsSec, lastSec, fifo, hist,
                    fx >>

\* decodeCache up to rp2040.fifo.push(SFTMESSAGE): temp[], the half-rate
\* sum, the copy to sftMagnitudes[] and the push
DecodeCache ==
    /\ fifoPush("decode", SFTMESSAGE, "message")
    /\ \E row \in RxRows :
          sftMagnitudes' =
              softMagnitudes(FrameInput(row, "quiet", halfRate, "same"),
                             NORMALMODE, cacheSize, halfRate, 0)
    /\ UNCHANGED << reg0, cachePoint, cacheSize, halfRate, dmaReady, dmaIdx,
                    sinceDma, magnitude, toneCache, decoded, PPSActive,
                    ppsTimer, rxRetard, pc1, reg1, gpsSec, lastSec, hist, fx >>

\* the rest of decodeCache (the confidence gate, decoded) and RxTick's
\* rp2040.fifo.push(MESSAGE)
PushMessage ==
    /\ fifoPush("message", MESSAGE, "clear")
    /\ decoded' = decodeChar(sftMagnitudes, DefaultThreshold, NoJunk)
    /\ UNCHANGED << reg0, cachePoint, cacheSize, halfRate, dmaReady, dmaIdx,
                    sinceDma, magnitude, toneCache, sftMagnitudes, PPSActive,
                    ppsTimer, rxRetard, pc1, reg1, gpsSec, lastSec, hist, fx >>

\* RxTick: dmaReady = false
ClearReady ==
    /\ pc0 = "clear"
    /\ dmaReady' = FALSE
    /\ pc0' = "idle"
    /\ UNCHANGED << reg0, cachePoint, cacheSize, halfRate, dmaIdx, sinceDma,
                    magnitude, toneCache, sftMagnitudes, decoded, PPSActive,
                    ppsTimer, rxRetard, pc1, reg1, gpsSec, lastSec, fifo, hist,
                    fx >>

\* dma_handler as the DMA completion interrupt: the next transfer is started
\* into the other buffer and dmaReady is set
dma_handler ==
    /\ pc0 = "idle"
    /\ dmaReady => cachePoint >= cacheSize
    /\ dmaIdx < FramesPerSecond \/ hist.acq = 0 \/ hist.env.gps = "lossy"
    /\ dmaReady' = TRUE
    /\ dmaIdx' = IF dmaIdx <= FramesPerSecond THEN dmaIdx + 1 ELSE dmaIdx
    /\ sinceDma' = IF sinceDma < TimeoutFrames THEN sinceDma + 1 ELSE sinceDma
    /\ UNCHANGED << pc0, reg0, cachePoint, cacheSize, halfRate, magnitude,
                    toneCache, sftMagnitudes, decoded, PPSActive, ppsTimer,
                    rxRetard, pc1, reg1, gpsSec, lastSec, fifo, hist, fx >>

\* doPPS in receive mode: PPSActive = 3, the running transfer is aborted and
\* a new one started, dmaReady = 0, and the write index is set
doPPS ==
    /\ PPSActive' = 3
    /\ dmaIdx' = 0
    /\ dmaReady' = FALSE
    /\ cachePoint' = ppsCachePoint(halfRate, gpsSec)
    /\ toneCache' = ppsCache(cachePoint')
    /\ magnitude' = [ magnitude EXCEPT !.post = FALSE ]
    /\ UNCHANGED << pc0, reg0, cacheSize, halfRate, sinceDma, sftMagnitudes,
                    decoded, rxRetard, pc1, reg1, gpsSec, lastSec, fifo, fx >>

\* the PPS edge is due: a second after the DMA was restarted the ninth
\* transfer has just completed, or the eighth has, its frame is done with
\* and the ninth is about to
ppsDue ==
    \/ dmaIdx = FramesPerSecond
    \/ dmaIdx = FramesPerSecond - 1 /\ pc0 = "idle"
          /\ (dmaReady => cachePoint >= cacheSize)

\* no PPS edge came when it was due, or none has come yet
ppsLost == dmaIdx > FramesPerSecond

\* the NMEA sentence of the running second has been parsed and its status
\* tick is over
tickDone == ~hist.nmea /\ pc1 # "dec" /\ gpsSec = lastSec

\* ppsISR in receive mode: doPPS at once, or after settings.rxRetard ms.
\* A steady GPS gives its edge after the NMEA sentence and the status tick
\* of the second before; a lossy one at any time.
ppsISR ==
    /\ ppsDue \/ (ppsLost /\ hist.acq < MaxAcquisitions)
    /\ tickDone \/ hist.env.gps = "lossy"
    /\ ~ppsTimer
    /\ LET h == [ hist EXCEPT !.nmea = TRUE,
                              !.acq = IF ppsLost THEN @ + 1 ELSE @ ]
       IN  IF rxRetard
           THEN /\ ppsTimer' = TRUE
                /\ hist' = h
                /\ UNCHANGED << pc0, reg0, cachePoint, cacheSize, halfRate,
                                dmaReady, dmaIdx, sinceDma, magnitude,
                                toneCache, sftMagnitudes, decoded, PPSActive,
                                rxRetard, pc1, reg1, gpsSec, lastSec, fifo,
                                fx >>
           ELSE /\ doPPS
                /\ hist' = [ h EXCEPT !.grace = 3 ]
                /\ UNCHANGED ppsTimer

\* PPSIntervalInterrupt: the delayed doPPS; the timer does not repeat
PPSIntervalInterrupt ==
    /\ ppsTimer
    /\ ppsTimer' = FALSE
    /\ doPPS
    /\ hist' = [ hist EXCEPT !.grace = 3 ]

\* loop1, the status tick: sendStatus() and the load of PPSActive--
StatusTick ==
    /\ pc1 = "loop"
    /\ \/ gpsSec # lastSec
       \/ ppsLost /\ ~hist.nmea
    /\ IF PPSActive > 0
       THEN /\ reg1' = PPSActive
            /\ pc1' = "dec"
            /\ UNCHANGED << lastSec, hist >>
       ELSE /\ lastSec' = gpsSec
            /\ hist' = [ hist EXCEPT !.grace = IF @ > 0 THEN @ - 1 ELSE 0 ]
            /\ UNCHANGED << reg1, pc1 >>
    /\ UNCHANGED << pc0, reg0, cachePoint, cacheSize, halfRate, dmaReady,
                    dmaIdx, sinceDma, magnitude, toneCache, sftMagnitudes,
                    decoded, PPSActive, ppsTimer, rxRetard, gpsSec, fifo, fx >>

\* loop1, the status tick: the store of PPSActive--, lastSec = gpsSec
StatusStore ==
    /\ pc1 = "dec"
    /\ PPSActive' = reg1 - 1
    /\ reg1' = 0
    /\ lastSec' = gpsSec
    /\ hist' = [ hist EXCEPT !.grace = IF @ > 0 THEN @ - 1 ELSE 0 ]
    /\ pc1' = "loop"
    /\ UNCHANGED << pc0, reg0, cachePoint, cacheSize, halfRate, dmaReady,
                    dmaIdx, sinceDma, magnitude, toneCache, sftMagnitudes,
                    decoded, ppsTimer, rxRetard, gpsSec, fifo, fx >>

\* loop1, rp2040.fifo.pop_nb and the switch: SFTMESSAGE prints the SFT: line,
\* MESSAGE the MSG: line
FifoPop ==
    /\ pc1 = "loop"
    /\ fifo # << >>
    /\ fifo' = Tail(fifo)
    /\ UNCHANGED << pc0, reg0, cachePoint, cacheSize, halfRate, dmaReady,
                    dmaIdx, sinceDma, magnitude, toneCache, sftMagnitudes,
                    decoded, PPSActive, ppsTimer, rxRetard, pc1, reg1, gpsSec,
                    lastSec, hist, fx >>

\* handleCommand "SET:halfrate:": halfRate = (v != 0)
SetHalfRate ==
    /\ pc1 = "loop"
    /\ hist.env.halfrate /\ hist.cmds < MaxCommands
    /\ \E v \in BOOLEAN : halfRate' = v
    /\ pc1' = "halfrate"
    /\ hist' = [ hist EXCEPT !.cmds = @ + 1 ]
    /\ UNCHANGED << pc0, reg0, cachePoint, cacheSize, dmaReady, dmaIdx,
                    sinceDma, magnitude, toneCache, sftMagnitudes, decoded,
                    PPSActive, ppsTimer, rxRetard, reg1, gpsSec, lastSec, fifo,
                    fx >>

\* handleCommand "SET:halfrate:": cacheSize = halfRate ? CACHESIZE * 2 : CACHESIZE
SetCacheSize ==
    /\ pc1 = "halfrate"
    /\ cacheSize' = IF halfRate THEN CACHESIZE * 2 ELSE CACHESIZE
    /\ pc1' = "loop"
    /\ UNCHANGED << pc0, reg0, cachePoint, halfRate, dmaReady, dmaIdx,
                    sinceDma, magnitude, toneCache, sftMagnitudes, decoded,
                    PPSActive, ppsTimer, rxRetard, reg1, gpsSec, lastSec, fifo,
                    hist, fx >>

\* loop1, the NMEA sentence that follows a PPS: gpsSec is the new second
processNMEA ==
    /\ pc1 = "loop"
    /\ hist.nmea
    /\ \E s \in 0 .. (SecWrap - 1) :
          /\ gpsSec # -1 => s = (gpsSec + 1) % SecWrap
          /\ gpsSec' = s
    /\ hist' = [ hist EXCEPT !.nmea = FALSE ]
    /\ UNCHANGED << pc0, reg0, cachePoint, cacheSize, halfRate, dmaReady,
                    dmaIdx, sinceDma, magnitude, toneCache, sftMagnitudes,
                    decoded, PPSActive, ppsTimer, rxRetard, pc1, reg1, lastSec,
                    fifo, fx >>

Next ==
    \/ RxPoll \/ PushGenplot \/ PushDrawSpectrum \/ PushDrawWaterfall
    \/ saveCache \/ IncLoad \/ IncStore \/ DecodeCache \/ PushMessage
    \/ ClearReady
    \/ dma_handler \/ ppsISR \/ PPSIntervalInterrupt
    \/ StatusTick \/ StatusStore \/ FifoPop
    \/ SetHalfRate \/ SetCacheSize \/ processNMEA

Spec == InitSpec /\ [][Next]_vars

---------------------------------------------------------------------------
(* SpecTx: OOK48 transmit. Core 0 runs loop() (TxTick) and the two         *)
(* interrupts, TxIntervalInterrupt (TxSymbol) and ppsISR (doPPS); core 1   *)
(* runs loop1() (the fifo dispatcher, processNMEA and handleCommand).      *)
(* Time is counted in symbol periods of TXINTERVAL since the last PPS;     *)
(* every handler ends within the period it started in, the NMEA sentence   *)
(* of a second arrives before the ninth symbol tick of that second, and    *)
(* settings.txAdvance is 0.  Each interrupt reads mode and then acts, and  *)
(* TxTick compares Key and then writes the pin, as two steps each, because *)
(* core 1 writes the same variables with no lock.                          *)

\* symbol periods in a second: 1 s / TXINTERVAL
SymbolsPerSecond == 9

\* pairs of seconds after which gpsSec wraps to 0
SecPairs == 1

\* commands the host sends in one run
MaxTxCommands == 2

TMESSAGE == "TMESSAGE"

JTMESSAGE == "JTMESSAGE"

REDLINE == "REDLINE"

CYANLINE == "CYANLINE"

\* settings.TxMessage[TxMessNo] for the two slots used
TxMessage(slot) == IF slot = 0 THEN MsgEmpty ELSE MsgLocator

TxSlots == { 0, 1 }

\* what is recorded of the second in progress: whether doPPS armed the
\* transmitter in it, the character it started with, the second's number
\* (known at its end), the level of KEYPIN in each period, the TX: lines
\* printed, and whether no command was handled in it
NoArm == [ armed |-> FALSE, tx |-> FALSE, ptr |-> 0, byte |-> 0, sec |-> 0,
           keyed |-> << >>, pubs |-> << >>, quiet |-> TRUE, aligned |-> TRUE ]

\* all of the receive path but gpsSec and halfRate
txRest == << pc0, reg0, cachePoint, cacheSize, dmaReady, dmaIdx, sinceDma,
             magnitude, toneCache, sftMagnitudes, decoded, PPSActive,
             ppsTimer, rxRetard, pc1, reg1, lastSec, fifo, hist >>

\* setup(): mode = RX, both pins low, TxMessNo = 0, TxInit()
InitTx ==
    /\ InitRx
    /\ fx = [ op |-> "tx", mode |-> "RX", TXPIN |-> 0, KEYPIN |-> 0,
              Key |-> 0, lastKey |-> 0, TxMessNo |-> 0,
              visual |-> TxInitVisual(TxMessage(0), Locator),
              TxBuffer |-> TxInitBuffer(TxMessage(0), Locator),
              TxPointer |-> 0, TxBitPointer |-> 0, TxSent |-> FALSE,
              TxCharSent |-> 0, messageChanging |-> FALSE, timer |-> FALSE,
              t |-> 0, nmea |-> FALSE, fifo |-> << >>,
              pcL |-> "loop", regKey |-> 0, isr |-> "none", pcC |-> "loop",
              slot |-> 0, cmds |-> 0, acked |-> "none", stopped |-> FALSE,
              arm |-> NoArm, prev |-> NoArm ]

TxMessLen == Len(fx.TxBuffer)

\* TxSymbol's wrap "if (TxPointer == TxMessLen) { TxPointer = 1; ... }"
wrapPointer(ptr, len) == IF ptr = len THEN 1 ELSE ptr

\* the test "(halfRate == false) || (halfRate & (gpsSec & 0x01))"
txAdvancesAlways(hr, sec) == TRUE

txAdvances(hr, sec) == (hr = FALSE) \/ (hr /\ sec % 2 = 1)

\* the shift of TxSymbol taken from the least significant bit
keyOfLsbFirst(byte, bit) == BitOf(byte, bit)

\* "Key = (TxBuffer[TxPointer] << TxBitPointer) & 0x80"
keyOf(byte, bit) == KeyBit(byte, bit)

\* TxSymbol() with mode == TX, applied to the record f
TxSymbolBody(f) ==
    LET wrapped == f.TxPointer = Len(f.TxBuffer)
        ptr     == wrapPointer(f.TxPointer, Len(f.TxBuffer))
        bit     == IF wrapped THEN 0 ELSE f.TxBitPointer
        ninth   == bit = 8
        adv     == txAdvances(halfRate, gpsSec)
        f1      == IF ninth
                   THEN [ f EXCEPT !.Key = 0, !.timer = FALSE,
                                   !.TxCharSent = f.visual[ptr + 1],
                                   !.TxSent = IF adv THEN TRUE ELSE @ ]
                   ELSE [ f EXCEPT !.Key = keyOf(f.TxBuffer[ptr + 1], bit) ]
    IN  IF bit + 1 > 8
        THEN [ f1 EXCEPT !.TxBitPointer = 0,
                         !.TxPointer = IF adv THEN ptr + 1 ELSE ptr ]
        ELSE [ f1 EXCEPT !.TxBitPointer = bit + 1, !.TxPointer = ptr ]

\* nothing is left to do in the period in progress
txSettled ==
    /\ fx.isr = "none" /\ fx.pcL = "loop" /\ fx.pcC = "loop"
    /\ fx.fifo = << >>
    /\ fx.mode = "TX" => (fx.Key = fx.lastKey /\ ~fx.TxSent)

\* a symbol period passes; the repeating timer, if it runs, fires
TxAdvance ==
    /\ fx.op = "tx" /\ txSettled
    /\ fx.t < SymbolsPerSecond
    /\ fx.t = SymbolsPerSecond - 2 => ~fx.nmea
    /\ fx' = [ fx EXCEPT !.t = @ + 1,
                         !.isr = IF fx.timer /\ fx.t + 1 < SymbolsPerSecond
                                 THEN "sym" ELSE "none",
                         !.arm.keyed = IF fx.arm.armed
                                       THEN Append(@, fx.KEYPIN) ELSE @ ]
    /\ UNCHANGED rxVars

\* the PPS edge: ppsISR is entered
TxPpsEdge ==
    /\ fx.op = "tx" /\ txSettled
    /\ fx.t = SymbolsPerSecond \/ ~fx.arm.armed
    /\ ~fx.nmea
    /\ fx' = [ fx EXCEPT !.t = 0, !.isr = "pps", !.nmea = TRUE,
                         !.arm = [ NoArm EXCEPT !.armed = TRUE ],
                         !.prev = [ fx.arm EXCEPT !.sec = gpsSec,
                                                  !.keyed = << >>,
                                                  !.pubs = << >> ] ]
    /\ UNCHANGED rxVars

\* ppsISR and doPPS read mode
PpsReadMode ==
    /\ fx.op = "tx" /\ fx.isr = "pps"
    /\ fx' = [ fx EXCEPT !.isr = IF fx.mode = "RX" THEN "ppsrx" ELSE "ppstx" ]
    /\ UNCHANGED rxVars

\* doPPS, mode == RX
doPPSRx ==
    /\ fx.op = "tx" /\ fx.isr = "ppsrx"
    /\ PPSActive' = 3
    /\ dmaIdx' = 0
    /\ dmaReady' = FALSE
    /\ cachePoint' = ppsCachePoint(halfRate, gpsSec)
    /\ toneCache' = ppsCache(cachePoint')
    /\ magnitude' = [ magnitude EXCEPT !.post = FALSE ]
    /\ fx' = [ fx EXCEPT !.isr = "none" ]
    /\ UNCHANGED << pc0, reg0, cacheSize, halfRate, sinceDma, sftMagnitudes,
                    decoded, ppsTimer, rxRetard, pc1, reg1, gpsSec, lastSec,
                    fifo, hist >>

\* doPPS, mode == TX: the symbol timer is restarted and TxSymbol() called;
\* TxSymbol tests mode again
doPPSTx ==
    /\ fx.op = "tx" /\ fx.isr = "ppstx"
    /\ PPSActive' = 3
    /\ LET f  == [ fx EXCEPT !.isr = "none", !.timer = TRUE ]
           g  == IF fx.mode = "TX" THEN TxSymbolBody(f) ELSE f
           p  == wrapPointer(fx.TxPointer, TxMessLen)
       IN  fx' = [ g EXCEPT !.arm.tx = fx.mode = "TX",
                            !.arm.ptr = p,
                            !.arm.byte = IF p < TxMessLen
                                         THEN fx.TxBuffer[p + 1] ELSE 0,
                            !.arm.quiet = @ /\ fx.pcC = "loop",
                            !.arm.aligned = (fx.TxBitPointer = 0
                                             \/ fx.TxPointer = TxMessLen) ]
    /\ UNCHANGED << pc0, reg0, cachePoint, cacheSize, halfRate, dmaReady,
                    dmaIdx, sinceDma, magnitude, toneCache, sftMagnitudes,
                    decoded, ppsTimer, rxRetard, pc1, reg1, gpsSec, lastSec,
                    fifo, hist >>

\* TxIntervalInterrupt: TxSymbol reads mode
SymReadMode ==
    /\ fx.op = "tx" /\ fx.isr = "sym"
    /\ fx' = [ fx EXCEPT !.isr = IF fx.mode = "TX" THEN "symtx" ELSE "none" ]
    /\ UNCHANGED rxVars

\* TxIntervalInterrupt: the body of TxSymbol
TxSymbol ==
    /\ fx.op = "tx" /\ fx.isr = "symtx"
    /\ fx' = TxSymbolBody([ fx EXCEPT !.isr = "none" ])
    /\ UNCHANGED rxVars

\* loop(): mode is read; TxTick runs when it is TX (RxTick otherwise)
LoopReadMode ==
    /\ fx.op = "tx" /\ fx.isr = "none" /\ fx.pcL = "loop"
    /\ fx.mode = "TX"
    /\ fx.Key # fx.lastKey \/ fx.TxSent
    /\ fx' = [ fx EXCEPT !.pcL = "key" ]
    /\ UNCHANGED rxVars

\* TxTick: "if(Key != lastKey)", Key read
TxTickKey ==
    /\ fx.op = "tx" /\ fx.isr = "none" /\ fx.pcL = "key"
    /\ fx' = [ fx EXCEPT !.regKey = fx.Key,
                         !.pcL = IF fx.Key # fx.lastKey THEN "write" ELSE "sent" ]
    /\ UNCHANGED rxVars

\* TxTick: "digitalWrite(KEYPIN, Key); lastKey = Key;"
TxTickWrite ==
    /\ fx.op = "tx" /\ fx.isr = "none" /\ fx.pcL = "write"
    /\ fx' = [ fx EXCEPT !.KEYPIN = fx.regKey, !.lastKey = fx.regKey,
                         !.regKey = 0, !.pcL = "sent" ]
    /\ UNCHANGED rxVars

\* TxTick: "if(TxSent) { if(!messageChanging) push(TMESSAGE); TxSent = false; }"
TxTickSent ==
    /\ fx.op = "tx" /\ fx.isr = "none" /\ fx.pcL = "sent"
    /\ fx' = [ fx EXCEPT !.fifo = IF fx.TxSent /\ ~fx.messageChanging
                                  THEN Append(@, TMESSAGE) ELSE @,
                         !.TxSent = FALSE, !.pcL = "loop" ]
    /\ UNCHANGED rxVars

\* loop1: "case TMESSAGE": the TX: line with TxCharSent
TxDispatch ==
    /\ fx.op = "tx" /\ fx.pcC = "loop" /\ fx.fifo # << >>
    /\ fx' = [ fx EXCEPT !.fifo = Tail(@),
                         !.arm.pubs = Append(@, fx.TxCharSent) ]
    /\ UNCHANGED rxVars

\* loop1: processNMEA sets gpsSec to the second that began at the PPS
TxNMEA ==
    /\ fx.op = "tx" /\ fx.pcC = "loop" /\ fx.nmea
    /\ gpsSec' = IF gpsSec = -1 THEN 0 ELSE (gpsSec + 1) % (2 * SecPairs)
    /\ fx' = [ fx EXCEPT !.nmea = FALSE ]
    /\ UNCHANGED << txRest, halfRate >>

\* a command reaches handleCommand
txCommand(first, f) ==
    /\ fx.op = "tx" /\ fx.pcC = "loop"
    /\ fx.cmds < MaxTxCommands
    /\ fx' = [ f EXCEPT !.pcC = first, !.cmds = @ + 1, !.acked = "none",
                        !.arm.quiet = FALSE ]

\* one step of a command's handler
txStep(at, next, f) ==
    /\ fx.op = "tx" /\ fx.pcC = at
    /\ fx' = [ f EXCEPT !.pcC = next ]
    /\ UNCHANGED rxVars

\* SET:halfrate:v, sent while receiving
TxSetHalfRate ==
    /\ fx.op = "tx" /\ fx.pcC = "loop" /\ fx.mode = "RX"
    /\ fx.cmds = 0
    /\ \E v \in BOOLEAN :
          /\ halfRate' = v
          /\ cacheSize' = IF v THEN CACHESIZE * 2 ELSE CACHESIZE
    /\ fx' = [ fx EXCEPT !.cmds = @ + 1, !.acked = "SET:halfrate" ]
    /\ UNCHANGED << pc0, reg0, cachePoint, dmaReady, dmaIdx, sinceDma,
                    magnitude, toneCache, sftMagnitudes, decoded, PPSActive,
                    ppsTimer, rxRetard, pc1, reg1, gpsSec, lastSec, fifo, hist >>

\* CMD:tx: "if (isOokLikeApp() && mode == RX)"
CmdTx ==
    /\ txCommand(IF fx.mode = "RX" THEN "tx_mode" ELSE "err",
                 [ fx EXCEPT !.stopped = fx.mode # "RX" /\ fx.stopped ])
    /\ UNCHANGED rxVars

\* the statements of the accepted CMD:tx, one at a time, and the ERR: answer
\* of the refused one
CmdTxRun ==
    \/ txStep("tx_mode", "tx_init", [ fx EXCEPT !.mode = "TX" ])
    \/ txStep("tx_init", "tx_ptt",
              [ fx EXCEPT !.visual = TxInitVisual(TxMessage(fx.TxMessNo), Locator),
                          !.TxBuffer = TxInitBuffer(TxMessage(fx.TxMessNo), Locator),
                          !.TxPointer = 0, !.TxBitPointer = 0 ])
    \/ txStep("tx_ptt", "tx_ptr", [ fx EXCEPT !.TXPIN = 1 ])
    \/ txStep("tx_ptr", "loop",
              [ fx EXCEPT !.TxPointer = 0, !.TxBitPointer = 0,
                          !.acked = "CMD:tx" ])
    \/ txStep("err", "loop", [ fx EXCEPT !.acked = "ERR" ])

\* CMD:rx: "if (mode == TX)"
CmdRx ==
    /\ txCommand(IF fx.mode = "TX" THEN "rx_mode" ELSE "rx_already", fx)
    /\ UNCHANGED rxVars

\* the statements of CMD:rx in transmit mode, one at a time, and the
\* "already RX" answer
CmdRxRun ==
    \/ txStep("rx_already", "loop", [ fx EXCEPT !.acked = "CMD:rx" ])
    \/ txStep("rx_mode", "rx_keypin", [ fx EXCEPT !.mode = "RX" ])
    \/ txStep("rx_keypin", "rx_txpin", [ fx EXCEPT !.KEYPIN = 0 ])
    \/ txStep("rx_txpin", "rx_key", [ fx EXCEPT !.TXPIN = 0 ])
    \/ txStep("rx_key", "rx_cancel", [ fx EXCEPT !.Key = 0 ])
    \/ txStep("rx_cancel", "loop",
              [ fx EXCEPT !.timer = FALSE, !.acked = "CMD:rx",
                          !.stopped = TRUE ])

\* CMD:txmsg:slot
CmdTxMsg ==
    /\ \E slot \in TxSlots : txCommand("msg_no", [ fx EXCEPT !.slot = slot ])
    /\ UNCHANGED rxVars

\* the statements of CMD:txmsg, one at a time
CmdTxMsgRun ==
    \/ txStep("msg_no", IF fx.mode = "TX" THEN "msg_cancel" ELSE "msg_done",
              [ fx EXCEPT !.TxMessNo = fx.slot, !.messageChanging = TRUE ])
    \/ txStep("msg_cancel", "msg_init", [ fx EXCEPT !.timer = FALSE ])
    \/ txStep("msg_init", "msg_done",
              [ fx EXCEPT !.visual = TxInitVisual(TxMessage(fx.TxMessNo), Locator),
                          !.TxBuffer = TxInitBuffer(TxMessage(fx.TxMessNo), Locator),
                          !.TxPointer = 0, !.TxBitPointer = 0 ])
    \/ txStep("msg_done", "loop",
              [ fx EXCEPT !.messageChanging = FALSE, !.acked = "CMD:txmsg" ])

NextTx ==
    \/ TxAdvance \/ TxPpsEdge \/ PpsReadMode \/ doPPSRx \/ doPPSTx
    \/ SymReadMode \/ TxSymbol
    \/ LoopReadMode \/ TxTickKey \/ TxTickWrite \/ TxTickSent
    \/ TxDispatch \/ TxNMEA \/ TxSetHalfRate
    \/ CmdTx \/ CmdTxRun \/ CmdRx \/ CmdRxRun \/ CmdTxMsg \/ CmdTxMsgRun

SpecTx == InitTx /\ [][NextTx]_vars

---------------------------------------------------------------------------
(* SpecCmd: the SET commands of handleCommand and the reboot of SET:app.   *)
(* One command is handled at a time, as loop1 does. The argument of a      *)
(* command is a number or a text that is no number; a confidence is given  *)
(* in thousandths.                                                         *)

\* SET commands handled in one run
MaxSets == 2

\* enum Apps; MORSEMODE is used by isOokLikeApp but not declared in src/
OOK48 == 0

BEACONJT4 == 1

BEACONPI4 == 2

MORSEMODE == 3

JT4CACHESIZE == 240

PI4CACHESIZE == 180

MORSE_DEFAULT_WPM == 12

MORSE_MIN_WPM == 5

MORSE_MAX_WPM == 40

\* CONFIDENCE_THRESHOLD 0.180f, in thousandths
CONFIDENCE_THRESHOLD == 180

\* the prefixes handleCommand tests, and a line that matches none
SetKinds == { "loclen", "decmode", "txadv", "rxret", "halfrate", "morsewpm",
              "confidence", "app", "msg", "other" }

\* an argument: a number, or a text that is no number
Num(v) == [ num |-> TRUE, val |-> v ]

Junk == [ num |-> FALSE, val |-> 0 ]

\* the arguments that are sent: numbers around every limit the handlers
\* test, and a text that is no number
ArgValues ==
    { Num(v) : v \in { -1, 0, 1, 2, 3, 4, 5, 6, 8, 10, 40, 41, 999, 1000 } }
       \cup { Junk }

\* the confidences that are sent, in thousandths, and a text that is no number
ConfValues ==
    { Num(v) : v \in { -1, 0, 1, 180, 999, 1000, 1001 } } \cup { Junk }

\* the text after the slot of SET:msg: none, empty, "A", "A\r"
NoText == [ given |-> FALSE, chars |-> << >> ]

MsgTexts ==
    { NoText } \cup { [ given |-> TRUE, chars |-> t ] :
                         t \in { << >>, << 65 >>, << 65, CR >> } }

\* atoi and atof: the number at the head of the text, 0 when there is none
atoi(arg) == IF arg.num THEN arg.val ELSE 0

\* SET:msg: strncpy, then a '\r' appended when the text does not end in one
storeMessage(text) ==
    IF Len(text) > 0 /\ text[Len(text)] # CR THEN Append(text, CR) ELSE text

\* defaultSettings()
defaultSettings ==
    [ locatorLength |-> 8, decodeMode |-> 0, txAdvance |-> 0, rxRetard |-> 0,
      app |-> OOK48, morseWpm |-> MORSE_DEFAULT_WPM,
      confidenceThreshold |-> CONFIDENCE_THRESHOLD,
      TxMessage |-> [ i \in 0 .. 9 |-> MsgEmpty ] ]

isOokLikeApp(app) == app = OOK48 \/ app = MORSEMODE

\* the branch setup() takes for settings.app: what is initialised and run
appStarted(app) ==
    IF isOokLikeApp(app) THEN app
    ELSE IF app = BEACONPI4 THEN BEACONPI4 ELSE BEACONJT4

\* the cacheSize the initialisation of that application leaves
appCacheSize(app) ==
    IF isOokLikeApp(app) THEN CACHESIZE
    ELSE IF app = BEACONPI4 THEN PI4CACHESIZE ELSE JT4CACHESIZE

\* setup() after a reset: defaultSettings(), then the application of
\* settings.app
bootState(cmds, requested) ==
    [ op |-> "cmd", settings |-> defaultSettings,
      running |-> appStarted(defaultSettings.app),
      qthEnd |-> defaultSettings.locatorLength,
      mode |-> "RX", timer |-> FALSE, pcC |-> "loop",
      cmd |-> [ kind |-> "none", arg |-> Junk, text |-> NoText ],
      reply |-> "none", cmds |-> cmds, requested |-> requested,
      boots |-> IF requested = -1 THEN 0 ELSE 1 ]

InitCmd ==
    /\ InitRx
    /\ fx = bootState(0, -1)

\* the answer and the settings after one SET line
handleSet(f, kind, arg, text) ==
    LET v == atoi(arg)
        ack(g) == [ g EXCEPT !.reply = "ACK" ]
        err    == [ f EXCEPT !.reply = "ERR" ]
    IN  CASE kind = "loclen" ->
               IF v = 6 \/ v = 8 \/ v = 10
               THEN ack([ f EXCEPT !.settings.locatorLength = v, !.qthEnd = v ])
               ELSE err
          [] kind = "decmode" ->
               IF v >= 0 /\ v <= 2
               THEN ack([ f EXCEPT !.settings.decodeMode = v ]) ELSE err
          [] kind = "txadv" ->
               IF v >= 0 /\ v <= 999
               THEN ack([ f EXCEPT !.settings.txAdvance = v ]) ELSE err
          [] kind = "rxret" ->
               IF v >= 0 /\ v <= 999
               THEN ack([ f EXCEPT !.settings.rxRetard = v ]) ELSE err
          [] kind = "halfrate" -> ack(f)
          [] kind = "morsewpm" ->
               IF v >= MORSE_MIN_WPM /\ v <= MORSE_MAX_WPM
               THEN ack([ f EXCEPT !.settings.morseWpm = v ]) ELSE err
          [] kind = "confidence" ->
               IF v > 0 /\ v < 1000
               THEN ack([ f EXCEPT !.settings.confidenceThreshold = v ])
               ELSE err
          [] kind = "app" ->
               IF v >= 0 /\ v <= 3
               THEN ack([ f EXCEPT !.settings.app = v, !.pcC = "reboot",
                                   !.requested = v ])
               ELSE err
          [] kind = "msg" ->
               IF v >= 0 /\ v <= 9
               THEN IF text.given
                    THEN ack([ f EXCEPT
                                 !.settings.TxMessage[v] =
                                     storeMessage(text.chars) ])
                    ELSE err
               ELSE err
          [] OTHER -> err

\* handleCommand for one line "SET:kind:arg" (or a line it does not know)
SetCommand ==
    /\ fx.op = "cmd" /\ fx.pcC = "loop"
    /\ fx.cmds < MaxSets
    /\ \E kind \in SetKinds,
          arg \in ArgValues \cup ConfValues,
          text \in MsgTexts :
          /\ arg \in (IF kind = "confidence" THEN ConfValues ELSE ArgValues)
          /\ kind # "msg" => text = NoText
          /\ fx' = handleSet([ fx EXCEPT !.cmds = @ + 1,
                                         !.cmd = [ kind |-> kind, arg |-> arg,
                                                   text |-> text ] ],
                             kind, arg, text)
          /\ halfRate' = IF kind = "halfrate" THEN atoi(arg) # 0 ELSE halfRate
          /\ cacheSize' = IF kind = "halfrate"
                          THEN (IF atoi(arg) # 0 THEN CACHESIZE * 2
                                ELSE CACHESIZE)
                          ELSE cacheSize
    /\ UNCHANGED << pc0, reg0, cachePoint, dmaReady, dmaIdx, sinceDma,
                    magnitude, toneCache, sftMagnitudes, decoded, PPSActive,
                    ppsTimer, rxRetard, pc1, reg1, gpsSec, lastSec, fifo, hist >>

\* rp2040.reboot() after ACK:SET:app, and setup() of the restarted firmware
Reboot ==
    /\ fx.op = "cmd" /\ fx.pcC = "reboot"
    /\ fx' = bootState(fx.cmds, fx.requested)
    /\ halfRate' = FALSE
    /\ cacheSize' = appCacheSize(fx'.settings.app)
    /\ UNCHANGED << pc0, reg0, cachePoint, dmaReady, dmaIdx, sinceDma,
                    magnitude, toneCache, sftMagnitudes, decoded, PPSActive,
                    ppsTimer, rxRetard, pc1, reg1, gpsSec, lastSec, fifo, hist >>

NextCmd == SetCommand \/ Reboot

SpecCmd == InitCmd /\ [][NextCmd]_vars

---------------------------------------------------------------------------
(* SpecFrames: which frame's data the dispatch context reads. Every        *)
(* spectrum and every decoded character is numbered; magnitude[] and       *)
(* sftMagnitudes[] are two cells each, written and read one after the      *)
(* other, and hold the number of the frame or character last written.      *)
(* The PPS is steady and falls between two calls of RxTick.                *)

\* spectra computed in one run
MaxFrames == 10

NoTag == [ tag |-> "none", of |-> 0 ]

InitFrames ==
    /\ InitRx
    /\ fx = [ op |-> "frames", pc0 |-> "idle", frame |-> 0, char |-> 0,
              cachePoint |-> 0, magnitude |-> << 0, 0 >>,
              sftMagnitudes |-> << 0, 0 >>, decoded |-> 0, fifo |-> << >>,
              pc1 |-> "loop", cur |-> NoTag, seen |-> << >>, done |-> NoTag ]

\* a step of core 0 or core 1 that leaves the receive variables alone
frameStep(f) == fx.op = "frames" /\ fx' = f /\ UNCHANGED rxVars

\* RxTick: dmaReady and cachePoint < cacheSize; calcSpectrum() writes the
\* first part of magnitude[]
FrameCalcFirst ==
    /\ fx.pc0 = "idle" /\ fx.cachePoint < CACHESIZE /\ fx.frame < MaxFrames
    /\ frameStep([ fx EXCEPT !.frame = @ + 1, !.magnitude[1] = fx.frame + 1,
                             !.pc0 = "calc" ])

\* calcSpectrum() writes the rest of magnitude[]
FrameCalcRest ==
    /\ fx.pc0 = "calc"
    /\ frameStep([ fx EXCEPT !.magnitude[2] = fx.frame, !.pc0 = "genplot" ])

\* the tag pushed at each place of RxTick and decodeCache, the frame or
\* character it announces, and the place after it
framePushes ==
    { [ at |-> "genplot", tag |-> GENPLOT, of |-> fx.frame, to |-> "drawspectrum" ],
      [ at |-> "drawspectrum", tag |-> DRAWSPECTRUM, of |-> fx.frame, to |-> "drawwaterfall" ],
      [ at |-> "drawwaterfall", tag |-> DRAWWATERFALL, of |-> fx.frame, to |-> "save" ],
      [ at |-> "sft", tag |-> SFTMESSAGE, of |-> fx.char, to |-> "decoded" ],
      [ at |-> "message", tag |-> MESSAGE, of |-> fx.char, to |-> "idle" ] }

\* rp2040.fifo.push(tag): blocks while the fifo is full
FramePush ==
    /\ Len(fx.fifo) < FifoDepth
    /\ \E p \in framePushes :
          /\ fx.pc0 = p.at
          /\ frameStep([ fx EXCEPT !.fifo = Append(@, [ tag |-> p.tag, of |-> p.of ]),
                                   !.pc0 = p.to ])

\* saveCache(); cachePoint++; if(cachePoint == cacheSize) if(PPSActive)
FrameSave ==
    /\ fx.pc0 = "save"
    /\ frameStep([ fx EXCEPT !.cachePoint = @ + 1,
                             !.pc0 = IF fx.cachePoint + 1 = CACHESIZE
                                     THEN "decode" ELSE "idle" ])

\* decodeCache: sftMagnitudes[i] = temp[i], first part, rest, and
\* decoded = decode4from8[dec]
FrameDecode ==
    \/ /\ fx.pc0 = "decode"
       /\ frameStep([ fx EXCEPT !.char = @ + 1,
                                !.sftMagnitudes[1] = fx.char + 1,
                                !.pc0 = "decode2" ])
    \/ /\ fx.pc0 = "decode2"
       /\ frameStep([ fx EXCEPT !.sftMagnitudes[2] = fx.char, !.pc0 = "sft" ])
    \/ /\ fx.pc0 = "decoded"
       /\ frameStep([ fx EXCEPT !.decoded = fx.char, !.pc0 = "message" ])

\* doPPS between two calls of RxTick, the character complete: cachePoint = 0
FramePps ==
    /\ fx.pc0 = "idle" /\ fx.cachePoint = CACHESIZE
    /\ frameStep([ fx EXCEPT !.cachePoint = 0 ])

\* loop1: rp2040.fifo.pop_nb(&command) and the switch; MESSAGE reads decoded
FramePop ==
    /\ fx.pc1 = "loop" /\ fx.fifo # << >>
    /\ LET c == Head(fx.fifo)
           f == [ fx EXCEPT !.fifo = Tail(@) ]
       IN  frameStep(
             IF c.tag \in { GENPLOT, SFTMESSAGE }
             THEN [ f EXCEPT !.cur = c, !.seen = << >>, !.pc1 = "read" ]
             ELSE IF c.tag = MESSAGE
             THEN [ f EXCEPT !.cur = c, !.seen = << fx.decoded >>,
                             !.done = c ]
             ELSE f)

\* generatePlotData reading magnitude[p], and the SFT: line reading
\* sftMagnitudes[i], one cell at a time
FrameRead ==
    /\ fx.pc1 = "read"
    /\ LET buf == IF fx.cur.tag = GENPLOT THEN fx.magnitude
                  ELSE fx.sftMagnitudes
           got == Append(fx.seen, buf[Len(fx.seen) + 1])
       IN  frameStep(IF Len(got) = 2
                     THEN [ fx EXCEPT !.seen = got, !.done = fx.cur,
                                      !.pc1 = "loop" ]
                     ELSE [ fx EXCEPT !.seen = got ])

NextFrames ==
    \/ FrameCalcFirst \/ FrameCalcRest \/ FramePush \/ FrameSave
    \/ FrameDecode \/ FramePps \/ FramePop \/ FrameRead

SpecFrames == InitFrames /\ [][NextFrames]_vars

---------------------------------------------------------------------------
(* SpecBeacon: beaconTick in JT4 mode, one call at a time, between the     *)
(* DMA completions and the change of the GPS minute.                       *)

\* spectra completed in one run
MaxSpectra == 6

\* minutes after which gpsMin wraps to 0
MinWrap == 3

Tones == 0 .. 3

\* JT4Init(): cacheSize = JT4CACHESIZE, cachePoint = 0, dmaReady = false;
\* gpsMin = -1 and lastmin = 0 as the globals are defined
InitBeacon ==
    /\ InitRx
    /\ fx = [ op |-> "beacon", cacheSize |-> JT4CACHESIZE, cachePoint |-> 0,
              dmaReady |-> FALSE, gpsMin |-> -1, lastmin |-> 0,
              BeaconToneCache |-> [ i \in 0 .. JT4CACHESIZE - 1 |-> 0 ],
              pushed |-> << >>, spectra |-> 0, labels |-> 0, decodes |-> 0 ]

\* dma_handler: a buffer of samples is complete
BeaconDma ==
    /\ fx.op = "beacon" /\ ~fx.dmaReady /\ fx.spectra < MaxSpectra
    /\ fx' = [ fx EXCEPT !.dmaReady = TRUE ]
    /\ UNCHANGED rxVars

\* processNMEA: the minute of a valid RMC sentence
BeaconMinute ==
    /\ fx.op = "beacon"
    /\ fx' = [ fx EXCEPT !.gpsMin = (fx.gpsMin + 1) % MinWrap ]
    /\ UNCHANGED rxVars

\* one call of beaconTick; tn is what toneDetect returns and ok what
\* JT4decodeCache returns
beaconTick ==
    /\ fx.op = "beacon"
    /\ \E tn \in Tones, ok \in BOOLEAN :
          LET newMin == fx.gpsMin # fx.lastmin
              a == IF newMin
                   THEN [ fx EXCEPT !.lastmin = fx.gpsMin, !.cachePoint = 0,
                                    !.labels = 0, !.decodes = 0,
                                    !.pushed = << CYANLINE >> ]
                   ELSE [ fx EXCEPT !.pushed = << >> ]
              full == a.cachePoint = a.cacheSize
              b == [ a EXCEPT
                       !.pushed = @ \o << GENPLOT, DRAWSPECTRUM, DRAWWATERFALL >>
                                    \o (IF full THEN << REDLINE >> ELSE << >>)
                                    \o (IF full /\ ok THEN << JTMESSAGE >>
                                        ELSE << >>),
                       !.BeaconToneCache =
                           IF a.cachePoint < JT4CACHESIZE
                           THEN [ @ EXCEPT ![a.cachePoint] = tn ] ELSE @,
                       !.cachePoint = IF full THEN 0 ELSE @,
                       !.decodes = IF full THEN @ + 1 ELSE @,
                       !.spectra = @ + 1, !.labels = @ + 1,
                       !.dmaReady = FALSE ]
          IN  /\ fx' = IF a.dmaReady THEN b ELSE a
              /\ fx' # fx
    /\ UNCHANGED rxVars

NextBeacon == BeaconDma \/ BeaconMinute \/ beaconTick

SpecBeacon == InitBeacon /\ [][NextBeacon]_vars

---------------------------------------------------------------------------
(* SpecFano: one call of decodeFT4, from the de-interleaved bits to the    *)
(* tag beaconTick pushes, with fano run one decoder cycle at a time. The   *)
(* frame is shortened to FanoBits bits, of which the last 31 are the zero  *)
(* tail; the symbols are 0 or 255 as decodeFT4 passes them. A 32-bit       *)
(* encoder state is kept as its two 16-bit halves << high, low >>; cycles  *)
(* counts the passes of the decoder loop and budget is maxcycles x nbits.  *)

\* nbits: bits of the frame, the tail included
FanoBits == 33

\* tail = &nodes[nbits-31]
FanoTail == 31

\* delta of the call in decodeFT4
FanoDelta == 60

\* POLY1 0xf2d05351 and POLY2 0xe4613c47, by halves
POLY1High == 62160

POLY1Low == 21329

POLY2High == 58465

POLY2Low == 15431

\* maxcycles per bit, in the calls that are made
FanoBudgets == { 1, 2 }

\* the received symbols that differ from the ones sent, by position
FlipSets == { {}, { 1 }, { 7 }, { 1, 5, 7 }, { 1, 2, 5 }, { 3, 4, 7 } }

\* parity of x & p for 16-bit x and p (Partab after the folds of ENCODE)
RECURSIVE parityAnd(_, _)
parityAnd(x, p) ==
    IF x = 0 \/ p = 0 THEN 0
    ELSE ((x % 2) * (p % 2) + parityAnd(x \div 2, p \div 2)) % 2

\* ENCODE(sym, encstate): the POLY1 symbol in the 2-bit, POLY2 in the 1-bit
ENCODE(e) ==
    2 * ((parityAnd(e[1], POLY1High) + parityAnd(e[2], POLY1Low)) % 2)
      + ((parityAnd(e[1], POLY2High) + parityAnd(e[2], POLY2Low)) % 2)

\* encstate << 1 in 32 bits
shiftState(e) ==
    << (e[1] * 2 + e[2] \div 32768) % 65536, (e[2] * 2) % 65536 >>

\* encstate++ and encstate ^= 1
incState(e) ==
    IF e[2] = 65535 THEN << (e[1] + 1) % 65536, 0 >> ELSE << e[1], e[2] + 1 >>

flipState(e) == << e[1], IF e[2] % 2 = 0 THEN e[2] + 1 ELSE e[2] - 1 >>

\* encstate of encode() after bit k has been shifted in: the last 32 bits,
\* the newest in the lowest place
encodeState(bits, k) ==
    LET half(last) ==
           SumOver({ j \in 0 .. 15 : last - j >= 1 },
                   [ j \in 0 .. 15 |->
                       IF last - j >= 1 THEN bits[last - j] * Pow2(j) ELSE 0 ])
    IN  << half(k - 16), half(k) >>

\* encode(): the symbols of the bits, each mapped to 0 or 255
convEncode(bits) ==
    [ s \in 1 .. 2 * Len(bits) |->
        LET sym == ENCODE(encodeState(bits, (s + 1) \div 2))
        IN  255 * (IF s % 2 = 1 THEN sym \div 2 ELSE sym % 2) ]

\* mettab[b][s] for the two symbol values that occur
mettab(b, s) == IF (b = 1) = (s = 255) THEN 5 ELSE -89

\* the frame of message msg as it is received with the symbols of fl wrong
fanoSymbols(msg, fl) ==
    LET bits == [ k \in 1 .. FanoBits |->
                    IF k <= FanoBits - FanoTail THEN BitOf(msg, k - 1) ELSE 0 ]
        sent == convEncode(bits)
    IN  [ k \in 1 .. 2 * FanoBits |->
            IF k \in fl THEN 255 - sent[k] ELSE sent[k] ]

InitFano ==
    /\ InitRx
    /\ \E msg \in 0 .. (Pow2(FanoBits - FanoTail) - 1), fl \in FlipSets,
          mc \in FanoBudgets, mem \in BOOLEAN :
          fx = [ op |-> "fano", pc |-> "call", symbols |-> fanoSymbols(msg, fl),
                 maxcycles |-> mc, malloc |-> mem, nodes |-> << >>, np |-> 0,
                 t |-> 0, i |-> 0, reached |-> FALSE, ret |-> 0,
                 cycles |-> 0, budget |-> mc * FanoBits, nbits |-> FanoBits,
                 payload |-> << >>,
                 data |-> << >>, decodedOK |-> FALSE, unpacked |-> FALSE,
                 pushed |-> << >> ]

\* "Compute and sort metrics": tm[] and the low bit of encstate of node n
sortMetrics(n, inTail) ==
    LET lsym == ENCODE(n.encstate)
        m0   == n.metrics[lsym + 1]
        m1   == n.metrics[(3 - lsym) + 1]
    IN  IF inTail THEN [ n EXCEPT !.tm[1] = m0, !.i = 0 ]
        ELSE IF m0 > m1 THEN [ n EXCEPT !.tm = << m0, m1 >>, !.i = 0 ]
        ELSE [ n EXCEPT !.tm = << m1, m0 >>, !.encstate = incState(@),
                        !.i = 0 ]

\* the indices symbols[0] and symbols[1] of the metric loop of fano at node
\* k ("symbols += 2" after every node), counted from the start of the array
symbolPair(k) == << 2 * k, 2 * k + 1 >>

\* fano up to the decoder loop: malloc, the branch metrics of every node,
\* the root node, maxcycles *= nbits
FanoStart ==
    /\ fx.op = "fano" /\ fx.pc = "call"
    /\ LET metrics(k) ==
              [ j \in 1 .. 4 |->
                  mettab((j - 1) \div 2, fx.symbols[symbolPair(k)[1] + 1])
                     + mettab((j - 1) % 2, fx.symbols[symbolPair(k)[2] + 1]) ]
           blank(k) == [ encstate |-> << 0, 0 >>, gamma |-> 0,
                         metrics |-> metrics(k), tm |-> << 0, 0 >>, i |-> 0 ]
           nodes == [ k \in 0 .. fx.nbits - 1 |->
                        IF k = 0 THEN sortMetrics(blank(0), FALSE)
                        ELSE blank(k) ]
       IN  fx' = IF fx.malloc
                 THEN [ fx EXCEPT !.nodes = nodes, !.np = 0, !.t = 0, !.i = 1,
                                  !.maxcycles = @ * fx.nbits, !.pc = "loop" ]
                 ELSE [ fx EXCEPT !.ret = 0, !.pc = "returned" ]
    /\ UNCHANGED rxVars

\* "Look backward": back up to a node with an untried branch, or relax the
\* threshold
RECURSIVE lookBack(_, _, _, _)
lookBack(nodes, np, t, tail) ==
    IF np = 0 \/ nodes[np - 1].gamma < t
    THEN [ nodes |-> IF nodes[np].i # 0
                     THEN [ nodes EXCEPT ![np].i = 0,
                                         ![np].encstate = flipState(@) ]
                     ELSE nodes,
           np |-> np, t |-> t - FanoDelta ]
    ELSE IF np - 1 < tail /\ nodes[np - 1].i # 1
    THEN [ nodes |-> [ nodes EXCEPT ![np - 1].i = @ + 1,
                                    ![np - 1].encstate = flipState(@) ],
           np |-> np - 1, t |-> t ]
    ELSE lookBack(nodes, np - 1, t, tail)

\* one cycle of the decoder loop
FanoCycle ==
    /\ fx.op = "fano" /\ fx.pc = "loop"
    /\ ~fx.reached /\ fx.i <= fx.maxcycles
    /\ LET n      == fx.nodes[fx.np]
           ngamma == n.gamma + n.tm[n.i + 1]
           t2     == IF n.gamma < fx.t + FanoDelta
                     THEN fx.t + FanoDelta * ((ngamma - fx.t) \div FanoDelta)
                     ELSE fx.t
           moved  == [ fx.nodes EXCEPT ![fx.np + 1].gamma = ngamma,
                                       ![fx.np + 1].encstate =
                                           shiftState(n.encstate) ]
           back   == lookBack(fx.nodes, fx.np, fx.t, fx.nbits - FanoTail)
       IN  fx' = IF ngamma >= fx.t
                 THEN IF fx.np + 1 = fx.nbits - 1
                      THEN [ fx EXCEPT !.nodes = moved, !.np = @ + 1,
                                       !.t = t2, !.reached = TRUE,
                                       !.cycles = @ + 1 ]
                      ELSE [ fx EXCEPT
                               !.nodes = [ moved EXCEPT ![fx.np + 1] =
                                   sortMetrics(@, fx.np + 1
                                                    >= fx.nbits - FanoTail) ],
                               !.np = @ + 1, !.t = t2, !.i = @ + 1,
                               !.cycles = @ + 1 ]
                 ELSE [ fx EXCEPT !.nodes = back.nodes, !.np = back.np,
                                  !.t = back.t, !.i = @ + 1,
                                  !.cycles = @ + 1 ]
    /\ UNCHANGED rxVars

\* after the loop: the decoded bytes and "if(i >= maxcycles) return -1"
FanoReturn ==
    /\ fx.op = "fano" /\ fx.pc = "loop"
    /\ fx.reached \/ fx.i > fx.maxcycles
    /\ fx' = [ fx EXCEPT
                 !.data = [ j \in 1 .. (fx.nbits \div 8) |->
                              fx.nodes[8 * j - 1].encstate[2] % 256 ],
                 !.ret = IF fx.i >= fx.maxcycles THEN -1 ELSE 0,
                 !.pc = "returned" ]
    /\ UNCHANGED rxVars

\* decodeFT4 returns !notDecoded; JT4decodeCache unpacks and returns it;
\* beaconTick pushes JTMESSAGE when it is true
DecodeReturn ==
    /\ fx.op = "fano" /\ fx.pc = "returned"
    /\ LET ok == fx.ret = 0
       IN  fx' = [ fx EXCEPT !.decodedOK = ok, !.unpacked = ok,
                             !.pushed = IF ok THEN << JTMESSAGE >> ELSE << >>,
                             !.pc = "done" ]
    /\ UNCHANGED rxVars

NextFano == FanoStart \/ FanoCycle \/ FanoReturn \/ DecodeReturn

SpecFano == InitFano /\ [][NextFano]_vars

---------------------------------------------------------------------------
(* SpecJT4: a JT4 payload sent and decoded. The 72 payload bits and the    *)
(* 31 zero bits of the tail are encoded as encode() does, interleaved,     *)
(* mapped to 0 or 255, de-interleaved by JT4deInterleave and handed to     *)
(* fano by decodeFT4 with nbits 104: fano reads 208 symbols of the 206 of  *)
(* bits[], so the last two are whatever follows the array.                 *)

\* nbits, and the cycles per bit, of the call in decodeFT4
JT4Bits == 104

JT4MaxCycles == 20000

JT4BITCOUNT == 206

\* nbits of the call in decodePI4, and the bits of a PI4 message
PI4Bits == 74

PI4BITCOUNT == 146

\* bytes of a JT4 payload (72 bits)
JT4PayloadBytes == 9

\* the de-interleave table
jt4di ==
    << 0, 103,  52, 155,  26, 129,  78, 181,  13, 116,  65, 168,
        39, 142,  91, 194,   7, 110,  59, 162,  33, 136,  85, 188,
        20, 123,  72, 175,  46, 149,  97, 200,   4, 107,  56, 159,
        30, 133,  82, 185,  17, 120,  69, 172,  43, 146,  94, 197,
        10, 113,  62, 165,  36, 139,  88, 191,  23, 126,  75, 178,
        49, 152, 100, 203,   2, 105,  54, 157,  28, 131,  80, 183,
        15, 118,  67, 170,  41, 144,  93, 196,   9, 112,  61, 164,
        35, 138,  87, 190,  22, 125,  74, 177,  48, 151,  99, 202,
         6, 109,  58, 161,  32, 135,  84, 187,  19, 122,  71, 174,
        45, 148,  96, 199,  12, 115,  64, 167,  38, 141,  90, 193,
        25, 128,  77, 180,  51, 154, 102, 205,   1, 104,  53, 156,
        27, 130,  79, 182,  14, 117,  66, 169,  40, 143,  92, 195,
         8, 111,  60, 163,  34, 137,  86, 189,  21, 124,  73, 176,
        47, 150,  98, 201,   5, 108,  57, 160,  31, 134,  83, 186,
        18, 121,  70, 173,  44, 147,  95, 198,  11, 114,  63, 166,
        37, 140,  89, 192,  24, 127,  76, 179,  50, 153, 101, 204,
         3, 106,  55, 158,  29, 132,  81, 184,  16, 119,  68, 171,
        42, 145 >>

\* the payloads that are sent
JT4Payloads ==
    { [ k \in 1 .. JT4PayloadBytes |-> 0 ],
      [ k \in 1 .. JT4PayloadBytes |-> 255 ],
      << 85, 170, 55, 15, 18, 52, 86, 120, 154 >>,
      << 255, 0, 255, 0, 255, 0, 255, 0, 255 >>,
      << 1, 2, 4, 8, 16, 32, 64, 128, 129 >> }
       \cup { [ k \in 1 .. JT4PayloadBytes |-> IF k = j THEN b ELSE 0 ] :
                 j \in 1 .. JT4PayloadBytes, b \in { 1, 128 } }

\* a sender that shifts each byte out least significant bit first
jt4BitsLsbFirst(payload) ==
    [ k \in 1 .. (8 * JT4PayloadBytes + FanoTail) |->
        IF k <= 8 * JT4PayloadBytes
        THEN BitOf(payload[((k - 1) \div 8) + 1], (k - 1) % 8)
        ELSE 0 ]

\* the bits of the payload, most significant first, and the zero tail
jt4Bits(payload) ==
    [ k \in 1 .. (8 * JT4PayloadBytes + FanoTail) |->
        IF k <= 8 * JT4PayloadBytes
        THEN BitOf(payload[((k - 1) \div 8) + 1], 7 - ((k - 1) % 8))
        ELSE 0 ]

\* the interleaver of the sender: the inverse of the receiver's table
jt4Interleave(coded) == [ i \in 1 .. JT4BITCOUNT |-> coded[jt4di[i] + 1] ]

\* JT4deInterleave: d[jt4di[i]] = bits[i] for i = 0 .. bitCount-1
JT4deInterleave(bits) ==
    [ j \in 1 .. JT4BITCOUNT |->
        LET from == { i \in 1 .. JT4BITCOUNT : jt4di[i] = j - 1 }
        IN  bits[CHOOSE i \in from : \A h \in from : h <= i] ]

InitJT4 ==
    /\ InitRx
    /\ \E payload \in JT4Payloads, past \in { 0, 255 } \X { 0, 255 } :
          LET coded == convEncode(jt4Bits(payload))
              bits  == JT4deInterleave(jt4Interleave(coded))
          IN  fx = [ op |-> "fano", pc |-> "call",
                     symbols |-> bits \o past,
                     maxcycles |-> JT4MaxCycles, malloc |-> TRUE,
                     nodes |-> << >>, np |-> 0,
                     t |-> 0, i |-> 0, reached |-> FALSE, ret |-> 0,
                     cycles |-> 0, budget |-> JT4MaxCycles * JT4Bits,
                     nbits |-> JT4Bits, payload |-> payload,
                     data |-> << >>, decodedOK |-> FALSE, unpacked |-> FALSE,
                     pushed |-> << >> ]

SpecJT4 == InitJT4 /\ [][NextFano]_vars

---------------------------------------------------------------------------
(* SpecUnpack: JT4unpack and PI4unpack applied to decoder outputs. A       *)
(* character is its ASCII code. The 42-bit value of PI4unpack is kept as   *)
(* three 14-bit limbs << high, middle, low >>.                             *)

\* the bytes a decoder output is drawn from, and the known test vector
UnpackBytes == { 0, 85, 128, 249, 255 }

JT4TestVector == << 85, 170, 55, 15, 18, 52, 86, 120, 154, 188, 222, 240 >>

\* the switch of JT4unpack: a value with no case is left as it is
jt4Char(v) ==
    CASE v \in 0 .. 9   -> v + 48
      [] v \in 10 .. 35 -> v + 65 - 10
      [] v = 36 -> 32
      [] v = 37 -> 43
      [] v = 38 -> 45
      [] v = 39 -> 46
      [] v = 40 -> 47
      [] v = 41 -> 63
      [] OTHER  -> v

\* JT4unpack: the 13 characters of JTmessage
JT4unpack(dec) ==
    LET n3a == dec[8] * 256 + dec[9]
        n2a == (dec[4] % 16) * 16777216 + dec[5] * 65536 + dec[6] * 256
                  + dec[7]
        n1a == dec[1] * 1048576 + dec[2] * 4096 + dec[3] * 16
                  + (dec[4] \div 16)
        n3  == (n3a % 32768) + (n1a % 2) * 32768 + (n2a % 2) * 65536
        n2  == n2a \div 2
        n1  == n1a \div 2
        five(n) == << n \div 3111696, (n \div 74088) % 42, (n \div 1764) % 42,
                      (n \div 42) % 42, n % 42 >>
        three(n) == << n \div 1764, (n \div 42) % 42, n % 42 >>
        values == five(n1) \o five(n2) \o three(n3)
    IN  [ k \in 1 .. 13 |-> jt4Char(values[k]) ]

\* the switch of PI4unpack
pi4Char(v) ==
    CASE v \in 0 .. 9   -> v + 48
      [] v \in 10 .. 35 -> v + 65 - 10
      [] v = 36 -> 32
      [] v = 37 -> 47
      [] OTHER  -> v

\* N >> 22 of the 64-bit big-endian value of dec[0..7], as limbs
pi4Value(dec) ==
    << dec[1] * 64 + (dec[2] \div 4),
       (dec[2] % 4) * 4096 + dec[3] * 16 + (dec[4] \div 16),
       (dec[4] % 16) * 1024 + dec[5] * 4 + (dec[6] \div 64) >>

\* N / 38 and N % 38 on limbs
div38(n) ==
    LET c2 == n[1]
        c1 == (c2 % 38) * 16384 + n[2]
        c0 == (c1 % 38) * 16384 + n[3]
    IN  [ q |-> << c2 \div 38, c1 \div 38, c0 \div 38 >>, r |-> c0 % 38 ]

\* an expansion that stores the digits least significant first
RECURSIVE pi4DigitsReversed(_, _)
pi4DigitsReversed(n, count) ==
    IF count = 0 THEN << >>
    ELSE << div38(n).r >> \o pi4DigitsReversed(div38(n).q, count - 1)

\* the values PImessage[i] of the loop i = 7 .. 0, index i first
RECURSIVE pi4Digits(_, _)
pi4Digits(n, count) ==
    IF count = 0 THEN << >>
    ELSE pi4Digits(div38(n).q, count - 1) \o << div38(n).r >>

\* PI4unpack: the 8 characters of PImessage
PI4unpack(dec) ==
    LET values == pi4Digits(pi4Value(dec), 8)
    IN  [ k \in 1 .. 8 |-> pi4Char(values[k]) ]

InitUnpack ==
    /\ InitRx
    /\ \E a, b, c, d \in UnpackBytes, full \in BOOLEAN :
          fx = [ op |-> "unpack", pc |-> "decoded",
                 dec |-> IF full THEN JT4TestVector
                         ELSE << a, b, c, d, c, d, c, a, b, 0, 0, 0 >>,
                 JTmessage |-> << >>, PImessage |-> << >> ]

\* JT4decodeCache after a decode: JT4unpack(dec)
UnpackJT4 ==
    /\ fx.op = "unpack" /\ fx.pc = "decoded"
    /\ fx' = [ fx EXCEPT !.JTmessage = JT4unpack(fx.dec), !.pc = "jt4" ]
    /\ UNCHANGED rxVars

\* PI4decodeCache after a decode: PI4unpack(dec)
UnpackPI4 ==
    /\ fx.op = "unpack" /\ fx.pc = "decoded"
    /\ fx' = [ fx EXCEPT !.PImessage = PI4unpack(fx.dec), !.pc = "pi4" ]
    /\ UNCHANGED rxVars

NextUnpack == UnpackJT4 \/ UnpackPI4

SpecUnpack == InitUnpack /\ [][NextUnpack]_vars

---------------------------------------------------------------------------
(* SpecMorse: MorseRxDecoder fed one frame magnitude per step. The floats  *)
(* of the decoder are fixed-point integers: magnitudes, the peak hold,     *)
(* the noise floor and the Schmitt thresholds in thousandths, the unit     *)
(* estimates in ten-thousandths of a frame, a wpm as twice its value. The  *)
(* histogram _p20Hist is the count of each bucket in _p20Ring, and         *)
(* _p20Scale is kept as the magnitude p20Mag that fixed it.                *)

\* repetitions of the run sequence, and the frames of silence that follow
MorseReps == 30

MaxSilence == 400

\* repetitions of the run sequence keyed again after the silence
MorseRekeyReps == 16

MORS_MIN_ACQUIRE_MARK_RUNS == 20

MORS_REESTIMATE_INTERVAL == 6

MORS_PEAK_FAST_ONSET == 120

MORS_P20_HIST_BINS == 256

MORS_P20_HIST_WINDOW == 128

MORS_LOST_TIMEOUT_DITS == 60

MAX_EVENTS == 8

MORSE_FRAME_RATE == 36

RunBufSize == 500

\* magnitude of a mark frame, and the magnitudes a space frame may have
MarkLevel == 100000

SpaceLevels == { 1000, 10000, 16000 }

\* the magnitude of a frame once the keying has stopped: 0, or (1) that of a
\* space frame
SilenceLevels == { 0, 1 }

MORSE_TABLE ==
    { << ".-", "A" >>, << "-...", "B" >>, << "-.-.", "C" >>,
      << "-..", "D" >>, << ".", "E" >>, << "..-.", "F" >>, << "--.", "G" >>,
      << "....", "H" >>, << "..", "I" >>, << ".---", "J" >>,
      << "-.-", "K" >>, << ".-..", "L" >>, << "--", "M" >>, << "-.", "N" >>,
      << "---", "O" >>, << ".--.", "P" >>, << "--.-", "Q" >>,
      << ".-.", "R" >>, << "...", "S" >>, << "-", "T" >>, << "..-", "U" >>,
      << "...-", "V" >>, << ".--", "W" >>, << "-..-", "X" >>,
      << "-.--", "Y" >>, << "--..", "Z" >>,
      << "-----", "0" >>, << ".----", "1" >>, << "..---", "2" >>,
      << "...--", "3" >>, << "....-", "4" >>, << ".....", "5" >>,
      << "-....", "6" >>, << "--...", "7" >>, << "---..", "8" >>,
      << "----.", "9" >>,
      << ".-.-.-", "." >>, << "--..--", "," >>, << "..--..", "?" >>,
      << "-....-", "-" >>, << "-..-..", "/" >>, << ".-.-.", "+" >>,
      << "-...-", "=" >> }

morseToChar(sym) ==
    IF \E e \in MORSE_TABLE : e[1] = sym
    THEN (CHOOSE e \in MORSE_TABLE : e[1] = sym)[2]
    ELSE "?"

MorseEvent(kind, ch, wpm) == [ kind |-> kind, ch |-> ch, wpm |-> wpm ]

\* _resetToAcquire
resetToAcquire(d) ==
    [ d EXCEPT !.state = "ACQUIRE", !.framesSinceAcq = 0, !.runBuf = << >>,
               !.symbol = "", !.framesSinceMark = 0, !.curState = 0,
               !.curLen = 0 ]

\* the decoder after begin(): reset()
morseBegin ==
    [ envFrames |-> 0, peakHold |-> 0, peakLowFrames |-> 0,
      p20Ring |-> << >>, p20Mag |-> 0, noiseFloor |-> 0, noiseFloorMin |-> 0,
      schmittState |-> 0, schmittLo |-> 0, schmittHi |-> 0,
      schmittValid |-> FALSE, schmittFrame |-> 0,
      curState |-> 0, curLen |-> 0, runBuf |-> << >>,
      state |-> "ACQUIRE", framesSinceAcq |-> 0,
      lockedWpm |-> 0, unitEst |-> 0, unitMin |-> 0, unitMax |-> 0,
      symbol |-> "", framesSinceMark |-> 0,
      events |-> << >>, formed |-> << >>, tracked |-> << >> ]

\* _pushEvent: an event beyond MAX_EVENTS is not stored (formed keeps every
\* event handed to it)
pushEvent(d, ev) ==
    [ d EXCEPT !.events = IF Len(@) < MAX_EVENTS THEN Append(@, ev) ELSE @,
               !.formed = Append(@, ev) ]

\* _updatePeak
updatePeak(d, mag) ==
    IF mag >= d.peakHold
    THEN [ d EXCEPT !.peakHold = mag, !.peakLowFrames = 0 ]
    ELSE LET low == d.peakLowFrames + 1
         IN  [ d EXCEPT !.peakLowFrames = low,
                        !.peakHold = (@ * (IF low > MORS_PEAK_FAST_ONSET
                                           THEN 9850 ELSE 9995)) \div 10000 ]

\* _updateP20
updateP20(d, mag) ==
    LET first == IF d.p20Mag = 0 /\ mag > 0 THEN mag ELSE d.p20Mag
    IN  IF first = 0 THEN d
        ELSE
        LET raw    == (mag * (MORS_P20_HIST_BINS - 1)) \div (8 * first)
            bucket == IF raw >= MORS_P20_HIST_BINS
                      THEN MORS_P20_HIST_BINS - 1 ELSE raw
            ring   == IF Len(d.p20Ring) = MORS_P20_HIST_WINDOW
                      THEN Append(Tail(d.p20Ring), bucket)
                      ELSE Append(d.p20Ring, bucket)
            total  == Len(ring)
            target == IF (total * 20) \div 100 < 1 THEN 1
                      ELSE (total * 20) \div 100
            upTo(b) == Cardinality({ i \in 1 .. total : ring[i] <= b })
            p20bucket == CHOOSE b \in { ring[i] : i \in 1 .. total } :
                            /\ upTo(b) >= target
                            /\ \A c \in { ring[i] : i \in 1 .. total } :
                                  upTo(c) >= target => b <= c
            shortTerm == (p20bucket * 8 * first)
                            \div (MORS_P20_HIST_BINS - 1)
            floorMin  == IF shortTerm > d.noiseFloorMin
                         THEN d.noiseFloorMin
                                 + (shortTerm - d.noiseFloorMin) \div 1000
                         ELSE d.noiseFloorMin
        IN  [ d EXCEPT !.p20Mag = first, !.p20Ring = ring,
                       !.noiseFloorMin = floorMin,
                       !.noiseFloor = IF shortTerm > floorMin THEN shortTerm
                                      ELSE floorMin ]

\* _updateSchmitt
updateSchmitt(d) ==
    IF d.envFrames < 20 THEN [ d EXCEPT !.schmittValid = FALSE ]
    ELSE IF d.noiseFloor <= 0 \/ d.peakHold < 6 * d.noiseFloor
    THEN [ d EXCEPT !.schmittValid = FALSE ]
    ELSE LET mid  == (d.noiseFloor + d.peakHold) \div 2
             hyst == (12 * (d.peakHold - d.noiseFloor)) \div 100
         IN  [ d EXCEPT !.schmittLo = mid - hyst, !.schmittHi = mid + hyst,
                        !.schmittValid = TRUE ]

\* _schmittStep
schmittStep(d, val) ==
    IF d.schmittState = 0 /\ val >= d.schmittHi THEN 1
    ELSE IF d.schmittState = 1 /\ val <= d.schmittLo THEN 0
    ELSE d.schmittState

\* MorsRing<RunEntry, 500>::push
runPush(buf, run) ==
    IF Len(buf) = RunBufSize THEN Append(Tail(buf), run) ELSE Append(buf, run)

RECURSIVE Pow10(_)
Pow10(n) == IF n = 0 THEN 1 ELSE 10 * Pow10(n - 1)

\* one pass of _morphFilter over runs[i..]: a run shorter than minRun is
\* merged into a neighbour; tmp holds the runs produced so far
RECURSIVE morphPass(_, _, _, _)
morphPass(runs, i, tmp, minRun) ==
    LET count == Len(runs)
        short == { k \in i .. count : runs[k].len < minRun }
    IN  IF count <= 1 \/ short = {} THEN tmp \o SubSeq(runs, i, count)
        ELSE
        LET k  == CHOOSE x \in short : \A y \in short : x <= y
            t2 == tmp \o SubSeq(runs, i, k - 1)
            n  == runs[k].len
            intoNext == Append(t2, [ state |-> runs[k + 1].state,
                                     len |-> n + runs[k + 1].len ])
            intoPrev == [ t2 EXCEPT ![Len(t2)].len = @ + n ]
        IN  IF k = 1 THEN morphPass(runs, k + 2, intoNext, minRun)
            ELSE IF k = count THEN intoPrev
            ELSE IF t2[Len(t2)].len >= runs[k + 1].len
            THEN morphPass(runs, k + 1, intoPrev, minRun)
            ELSE morphPass(runs, k + 2, intoNext, minRun)

\* "Merge adjacent same-state runs"
mergeRuns(tmp) ==
    LET starts == { j \in 1 .. Len(tmp) :
                      j = 1 \/ tmp[j].state # tmp[j - 1].state }
        nth(k) == CHOOSE j \in starts :
                     Cardinality({ h \in starts : h <= j }) = k
        last(j) == IF \E h \in starts : h > j
                   THEN (CHOOSE h \in starts :
                           h > j /\ \A g \in starts : g > j => h <= g) - 1
                   ELSE Len(tmp)
    IN  [ k \in 1 .. Cardinality(starts) |->
            [ state |-> tmp[nth(k)].state,
              len |-> SumOver(nth(k) .. last(nth(k)),
                              [ j \in 1 .. Len(tmp) |-> tmp[j].len ]) ] ]

\* _morphFilter
RECURSIVE morphFilter(_, _)
morphFilter(runs, minRun) ==
    IF Len(runs) <= 0 \/ minRun <= 1 THEN runs
    ELSE LET tmp == morphPass(runs, 1, << >>, minRun)
         IN  IF tmp = runs THEN mergeRuns(tmp)
             ELSE morphFilter(mergeRuns(tmp), minRun)

\* _ditFrames(wpm) + 0.5 truncated, at least 1, for wpm = wpm2 / 2:
\* 1.2 / wpm * 36 = 86.4 / wpm2
unitFrames(wpm2) ==
    LET uf == (24 * MORSE_FRAME_RATE + 5 * wpm2) \div (10 * wpm2)
    IN  IF uf < 1 THEN 1 ELSE uf

\* p / q in millionths, truncated, for 0 <= p and 0 < q: the whole part and
\* then six decimal places one at a time
RECURSIVE Millionths(_, _, _)
Millionths(p, q, places) ==
    IF places = 0 THEN p \div q
    ELSE (p \div q) * Pow10(places) + Millionths(10 * (p % q), q, places - 1)

\* score and confidence of one candidate speed in _estimateWpm; scored is
\* FALSE for a candidate the loop skips
wpmScore(runs, wpm2) ==
    LET uf    == unitFrames(wpm2)
        count == Len(runs)
        marks == { i \in 1 .. count : runs[i].state = 1 /\ runs[i].len >= 2 }
        sub   == Cardinality({ i \in 1 .. count : 2 * runs[i].len < uf })
        abs(x) == IF x < 0 THEN -x ELSE x
        near(n) == IF abs(n - uf) < abs(n - 3 * uf) THEN abs(n - uf)
                   ELSE abs(n - 3 * uf)
        weight(n) == IF n < 10 * uf THEN n ELSE 10 * uf
        w(i)   == IF runs[i].state = 1 THEN 100
                  ELSE IF runs[i].len >= 6 * uf THEN 15 ELSE 30
        err(i) == IF runs[i].state # 1 /\ runs[i].len >= 6 * uf
                  THEN abs(runs[i].len - 7 * uf) ELSE near(runs[i].len)
        used  == { i \in 1 .. count : 2 * runs[i].len >= uf }
        pen   == SumOver(used, [ i \in 1 .. count |->
                                   weight(runs[i].len) * w(i) * err(i) ])
        tw    == SumOver(used, [ i \in 1 .. count |->
                                   weight(runs[i].len) * w(i) ])
        hits  == Cardinality({ i \in marks :
                    \/ 100 * abs(runs[i].len - uf) <= 35 * uf
                    \/ 100 * abs(runs[i].len - 3 * uf) <= 35 * uf })
    IN  IF tw = 0 THEN [ scored |-> FALSE, score |-> 0, hits |-> 0 ]
        ELSE [ scored |-> TRUE,
               score |-> (400000 * hits) \div Cardinality(marks)
                            - Millionths(pen, uf * tw, 6)
                            - (1500000 * sub) \div count,
               hits |-> hits ]

\* _estimateWpm keeping the last candidate of the best score instead of the
\* first
estimateWpmLast(runs) ==
    LET marks == Cardinality({ i \in 1 .. Len(runs) :
                                 runs[i].state = 1 /\ runs[i].len >= 2 })
        cands == 2 * MORSE_MIN_WPM .. 2 * MORSE_MAX_WPM
        sc    == [ c \in cands |-> wpmScore(runs, c) ]
        ok    == { c \in cands : sc[c].scored }
        best  == CHOOSE c \in ok :
                    \A e \in ok : \/ sc[e].score < sc[c].score
                                  \/ sc[e].score = sc[c].score /\ e <= c
    IN  IF marks = 0 \/ ok = {}
        THEN [ wpm2 |-> 2 * MORSE_MIN_WPM, hits |-> 0, marks |-> 1 ]
        ELSE [ wpm2 |-> best, hits |-> sc[best].hits, marks |-> marks ]

\* _estimateWpm: the first candidate of the best score, from wpmMin to
\* wpmMax in steps of 0.5; conf is hits out of marks
estimateWpm(runs) ==
    LET marks == Cardinality({ i \in 1 .. Len(runs) :
                                 runs[i].state = 1 /\ runs[i].len >= 2 })
        cands == 2 * MORSE_MIN_WPM .. 2 * MORSE_MAX_WPM
        sc    == [ c \in cands |-> wpmScore(runs, c) ]
        ok    == { c \in cands : sc[c].scored }
        best  == CHOOSE c \in ok :
                    \A e \in ok : \/ sc[e].score < sc[c].score
                                  \/ sc[e].score = sc[c].score /\ c <= e
    IN  IF marks = 0 \/ ok = {}
        THEN [ wpm2 |-> 2 * MORSE_MIN_WPM, hits |-> 0, marks |-> 1 ]
        ELSE [ wpm2 |-> best, hits |-> sc[best].hits, marks |-> marks ]

\* _emitSymbol
emitSymbol(d) ==
    [ pushEvent(d, MorseEvent("CHAR", morseToChar(d.symbol), 0))
        EXCEPT !.symbol = "" ]

\* the end of _trackStep with the upper limit only
clampPllHigh(e) ==
    [ e EXCEPT !.unitEst = IF @ > e.unitMax THEN e.unitMax ELSE @,
               !.tracked = Append(@, IF e.unitEst > e.unitMax THEN e.unitMax
                                     ELSE e.unitEst) ]

\* the end of _trackStep, "Clamp PLL": _unitEst is brought back inside
\* [_unitMin, _unitMax]; tracked keeps the _unitEst that each _trackStep of
\* this call of feed has left
clampPll(e) ==
    LET u == IF e.unitEst < e.unitMin THEN e.unitMin
             ELSE IF e.unitEst > e.unitMax THEN e.unitMax ELSE e.unitEst
    IN  [ e EXCEPT !.unitEst = u, !.tracked = Append(@, u) ]

\* _trackStep
trackStep(d, runState, runLen) ==
    LET uf     == d.unitEst
        units0 == (2 * runLen * 10000 + uf) \div (2 * uf)
        units  == IF units0 < 1 THEN 1 ELSE units0
        isDash == units >= 2
        blend(alpha, target) ==
            ((100 - alpha) * uf + alpha * ((runLen * 10000) \div target))
               \div 100
        clamp(e) == clampPll(e)
        flushed == IF Len(d.symbol) > 0 THEN emitSymbol(d) ELSE d
    IN  IF uf <= 0 THEN d
        ELSE IF runState = 1
        THEN clamp([ d EXCEPT
                       !.symbol = IF Len(@) < 7
                                  THEN @ \o (IF isDash THEN "-" ELSE ".")
                                  ELSE @,
                       !.unitEst = blend(12, IF isDash THEN 3 ELSE 1),
                       !.framesSinceMark = 0 ])
        ELSE IF 2 * runLen * 10000 >= 11 * uf
        THEN clamp(pushEvent(flushed, MorseEvent("WORD_SEP", " ", 0)))
        ELSE IF units >= 3
        THEN clamp([ flushed EXCEPT !.unitEst = blend(6, 3) ])
        ELSE clamp([ d EXCEPT !.unitEst = blend(6, 1) ])

\* the replay of _declareLocked: _trackStep on _runBuf[i], i = from ..
RECURSIVE replayRuns(_, _)
replayRuns(d, from) ==
    IF from > Len(d.runBuf) THEN d
    ELSE replayRuns(trackStep(d, d.runBuf[from].state, d.runBuf[from].len),
                    from + 1)

\* _declareLocked
declareLocked(d, wpm2) ==
    LET uf == (24 * MORSE_FRAME_RATE * 1000) \div wpm2
    IN  replayRuns(
          pushEvent([ d EXCEPT !.state = "LOCKED", !.lockedWpm = wpm2,
                               !.unitEst = uf, !.unitMin = (60 * uf) \div 100,
                               !.unitMax = (155 * uf) \div 100,
                               !.symbol = "", !.framesSinceMark = 0 ],
                    MorseEvent("LOCKED", "", wpm2)),
          1)

\* _declareLost without its Lost event
declareLostSilent(d) == resetToAcquire(d)

\* _declareLost
declareLost(d) == resetToAcquire(pushEvent(d, MorseEvent("LOST", "", 0)))

\* _acquireStep
acquireStep(d) ==
    LET markCount == Cardinality({ i \in 1 .. Len(d.runBuf) :
                                     d.runBuf[i].state = 1 })
        coarseUf  == unitFrames(MORSE_MIN_WPM + MORSE_MAX_WPM)
        minRun0   == (38 * coarseUf + 50) \div 100
        minRun    == IF minRun0 < 2 THEN 2 ELSE minRun0
        est       == estimateWpm(morphFilter(d.runBuf, minRun))
    IN  IF markCount < MORS_MIN_ACQUIRE_MARK_RUNS THEN d
        ELSE IF d.framesSinceAcq % MORS_REESTIMATE_INTERVAL # 0 THEN d
        ELSE IF 100 * est.hits >= 65 * est.marks
        THEN declareLocked(d, est.wpm2)
        ELSE d

\* step 5 of feed: the lock-loss watchdog
watchdog(d, bit) ==
    IF d.state # "LOCKED" THEN d
    ELSE LET e == [ d EXCEPT !.framesSinceMark = IF bit = 1 THEN 0 ELSE @ + 1 ]
             lostTimeout == (MORS_LOST_TIMEOUT_DITS * e.unitEst) \div 10000
         IN  IF e.framesSinceMark > lostTimeout THEN declareLost(e)
             ELSE IF e.unitEst < e.unitMin \/ e.unitEst > e.unitMax
             THEN declareLost(e)
             ELSE e

\* steps 1 and 2 of feed: envelope tracking, and the Schmitt thresholds
\* every eighth frame
feedEnvelope(d, mag) ==
    [ updateP20(updatePeak([ d EXCEPT !.events = << >>, !.formed = << >>,
                                      !.tracked = << >>,
                                      !.envFrames = @ + 1 ], mag), mag)
        EXCEPT !.schmittFrame = @ + 1 ]

feedThresholds(d) ==
    IF d.schmittFrame % 8 = 0 THEN updateSchmitt(d) ELSE d

\* steps 3 to 5 of feed, for the sliced bit: run-length accumulation, the
\* state machine on a completed run, the lock-loss watchdog
feedRun(d, bit) ==
    LET d4  == [ d EXCEPT !.schmittState = bit ]
        has == bit # d.curState /\ d.curLen > 0
        out == [ state |-> d.curState, len |-> d.curLen ]
        d5  == IF bit = d.curState THEN [ d4 EXCEPT !.curLen = @ + 1 ]
               ELSE [ d4 EXCEPT !.curState = bit, !.curLen = 1 ]
        d6  == [ d5 EXCEPT !.runBuf = runPush(@, out),
                           !.framesSinceAcq = @ + 1 ]
        d7  == IF ~has THEN d5
               ELSE IF d.state = "ACQUIRE" THEN acquireStep(d6)
               ELSE trackStep(d6, out.state, out.len)
    IN  watchdog(d7, bit)

\* feed once the envelope is updated: "if (!_schmittValid) return 0;"
feedSlice(d, mag) ==
    IF ~d.schmittValid THEN d ELSE feedRun(d, schmittStep(d, mag))

\* MorseRxDecoder::feed
feed(d, mag) == feedSlice(feedThresholds(feedEnvelope(d, mag)), mag)

\* the magnitude of frame number f of the keyed sequence: a mark of 3, a
\* space of 3, a mark of 9, a space of 9, repeated
morseLevel(f, space) ==
    LET pos == (f - 1) % 24
    IN  IF pos < 3 \/ (pos >= 6 /\ pos < 15) THEN MarkLevel ELSE space

\* CHAR and WORD_SEP events of one feed call that no LOCKED event of the
\* call precedes, when the call began in ACQUIRE
strayEvents(events, acquiring) ==
    IF ~acquiring THEN 0
    ELSE Cardinality({ i \in 1 .. Len(events) :
            /\ events[i].kind \in { "CHAR", "WORD_SEP" }
            /\ \A j \in 1 .. i - 1 : events[j].kind # "LOCKED" })

countKind(events, kind) ==
    Cardinality({ i \in 1 .. Len(events) : events[i].kind = kind })

\* what the caller has seen once a call of feed with magnitude mag has left
\* the decoder as d: quiet counts the space frames fed since the last mark
\* frame
morseSeen(f, d, mag) ==
    [ f EXCEPT !.dec = d, !.frame = @ + 1,
               !.quiet = IF mag = MarkLevel THEN 0 ELSE @ + 1,
               !.locks = @ + countKind(d.events, "LOCKED"),
               !.losts = @ + countKind(d.events, "LOST"),
               !.stray = @ + strayEvents(d.events, f.dec.state = "ACQUIRE"),
               !.chars = @ \cup { d.events[i].ch :
                                    i \in { j \in 1 .. Len(d.events) :
                                              d.events[j].kind = "CHAR" } } ]

\* one call of feed with magnitude mag
morseStep(f, mag) == morseSeen(f, feed(f.dec, mag), mag)

InitMorse ==
    /\ InitRx
    /\ \E space \in SpaceLevels, silence \in SilenceLevels :
          fx = [ op |-> "morse", dec |-> morseBegin, space |-> space,
                 silence |-> IF silence = 0 THEN 0 ELSE space,
                 frame |-> 0, quiet |-> 0, locks |-> 0, losts |-> 0,
                 stray |-> 0, chars |-> {} ]

\* RxTick in Morse mode while the sequence is keyed: morseDecoder.feed(mag)
MorseFeedKeyed ==
    /\ fx.op = "morse" /\ fx.frame < 24 * MorseReps
    /\ fx' = morseStep(fx, morseLevel(fx.frame + 1, fx.space))
    /\ UNCHANGED rxVars

\* RxTick in Morse mode once the keying has stopped: feed of a silent frame
MorseFeedSilence ==
    /\ fx.op = "morse" /\ fx.frame >= 24 * MorseReps
    /\ fx.frame < 24 * MorseReps + MaxSilence
    /\ fx' = morseStep(fx, fx.silence)
    /\ UNCHANGED rxVars

NextMorse == MorseFeedKeyed \/ MorseFeedSilence

SpecMorse == InitMorse /\ [][NextMorse]_vars

\* RxTick in Morse mode when the same sequence is keyed again after the
\* silence
MorseFeedRekeyed ==
    /\ fx.op = "morse" /\ fx.frame >= 24 * MorseReps + MaxSilence
    /\ fx.frame < 24 * MorseReps + MaxSilence + 24 * MorseRekeyReps
    /\ fx' = morseStep(fx, morseLevel(fx.frame + 1
                                        - (24 * MorseReps + MaxSilence),
                                      fx.space))
    /\ UNCHANGED rxVars

\* SpecMorseRelock: SpecMorse with the keying taken up again, so that the
\* decoder goes from Acquire to Locked a second time
NextMorseRelock == MorseFeedKeyed \/ MorseFeedSilence \/ MorseFeedRekeyed

SpecMorseRelock == InitMorse /\ [][NextMorseRelock]_vars

\* frames fed once the keying has changed its speed
MaxDrift == 480

\* the keying after the change: marks and spaces of these lengths in frames,
\* alternating (the sequence before has marks and spaces of 3 and 9)
DriftKeyings ==
    { [ mark |-> 3, space |-> 3 ], [ mark |-> 5, space |-> 2 ],
      [ mark |-> 15, space |-> 9 ] }

\* the magnitude of frame number g of the changed keying
driftLevel(g, keying, space) ==
    IF (g - 1) % (keying.mark + keying.space) < keying.mark THEN MarkLevel
    ELSE space

InitMorseDrift ==
    /\ InitRx
    /\ \E space \in SpaceLevels, keying \in DriftKeyings :
          fx = [ op |-> "morse", dec |-> morseBegin, space |-> space,
                 silence |-> 0, keying |-> keying,
                 frame |-> 0, quiet |-> 0, locks |-> 0, losts |-> 0,
                 stray |-> 0, chars |-> {} ]

\* RxTick in Morse mode while the sender keys at its changed speed
MorseFeedDrift ==
    /\ fx.op = "morse" /\ fx.frame >= 24 * MorseReps
    /\ fx.frame < 24 * MorseReps + MaxDrift
    /\ fx' = morseStep(fx, driftLevel(fx.frame + 1 - 24 * MorseReps,
                                      fx.keying, fx.space))
    /\ UNCHANGED rxVars

\* SpecMorseDrift: the keyed sequence of SpecMorse, then keying at another
\* speed without a pause, so that the tracker of the Locked state is pulled
\* away from the dit length it locked at
NextMorseDrift == MorseFeedKeyed \/ MorseFeedDrift

SpecMorseDrift == InitMorseDrift /\ [][NextMorseDrift]_vars

---------------------------------------------------------------------------
(* SpecMorseTx: a one-shot Morse transmission. Core 1 runs handleCommand    *)
(* ("CMD:morsetx:"), core 0 runs loop() and the two interrupts,             *)
(* TxIntervalInterrupt and ppsISR, with settings.txAdvance 0 and            *)
(* dashAlignmentMode false. A handler is one step; loop() handles           *)
(* morseCompleteRequest before the next timer interrupt (it runs many       *)
(* times in a unit), and PPS edges come at any moment.                      *)

\* PPS edges in one run
MaxPps == 2

\* MORSE_TABLE of main.cpp: struct MorseMap { c, pattern }
MorseMap ==
    { << "A", ".-" >>, << "B", "-..." >>, << "C", "-.-." >>, << "D", "-.." >>,
      << "E", "." >>, << "F", "..-." >>, << "G", "--." >>, << "H", "...." >>,
      << "I", ".." >>, << "J", ".---" >>, << "K", "-.-" >>, << "L", ".-.." >>,
      << "M", "--" >>, << "N", "-." >>, << "O", "---" >>, << "P", ".--." >>,
      << "Q", "--.-" >>, << "R", ".-." >>, << "S", "..." >>, << "T", "-" >>,
      << "U", "..-" >>, << "V", "...-" >>, << "W", ".--" >>, << "X", "-..-" >>,
      << "Y", "-.--" >>, << "Z", "--.." >>,
      << "0", "-----" >>, << "1", ".----" >>, << "2", "..---" >>,
      << "3", "...--" >>, << "4", "....-" >>, << "5", "....." >>,
      << "6", "-...." >>, << "7", "--..." >>, << "8", "---.." >>,
      << "9", "----." >>,
      << "/", "-..-." >>, << "?", "..--.." >>, << ".", ".-.-.-" >>,
      << ",", "--..--" >>, << "-", "-....-" >>, << "+", ".-.-." >>,
      << "=", "-...-" >> }

\* morsePatternForChar, for upper-case text; "" stands for nullptr
morsePatternForChar(c) ==
    IF \E e \in MorseMap : e[1] = c
    THEN (CHOOSE e \in MorseMap : e[1] = c)[2]
    ELSE ""

\* the texts of CMD:morsetx, a character per element
MorseTexts ==
    { << "E" >>, << "A" >>, << "T", " ", "E" >>, << "#", "N" >> }

\* the elements of one character: 3 units for '-', 1 for '.', and -1
\* between two elements
patternUnits(pattern) ==
    LET n == Len(pattern)
        el(p) == IF SubSeq(pattern, p, p) = "-" THEN 3 ELSE 1
    IN  [ k \in 1 .. 2 * n - 1 |-> IF k % 2 = 1 THEN el((k + 1) \div 2) ELSE -1 ]

\* buildMorseSequence from text[i] on, with the sequence and the pending gap
\* so far
RECURSIVE buildFrom(_, _, _, _)
buildFrom(text, i, seq, pendingGap) ==
    IF i > Len(text) THEN seq
    ELSE IF text[i] = " "
    THEN buildFrom(text, i + 1, seq,
                   IF Len(seq) > 0 /\ pendingGap < 7 THEN 7 ELSE pendingGap)
    ELSE IF morsePatternForChar(text[i]) = ""
    THEN buildFrom(text, i + 1, seq, pendingGap)
    ELSE LET gap == IF pendingGap > 0 THEN pendingGap ELSE 3
             s1  == IF Len(seq) > 0 THEN Append(seq, -gap) ELSE seq
         IN  buildFrom(text, i + 1,
                       s1 \o patternUnits(morsePatternForChar(text[i])), 0)

\* buildMorseSequence: morseSeq[0 .. morseSeqLen - 1]
buildMorseSequence(text) == buildFrom(text, 1, << >>, 0)

\* morseTick
morseTick(f) ==
    IF ~f.morseTxMode \/ f.mode # "TX" THEN [ f EXCEPT !.Key = 0 ]
    ELSE IF f.morseUnitsLeft = 0 /\ f.morseSeqPos >= Len(f.morseSeq)
    THEN [ f EXCEPT !.Key = 0, !.morseTxMode = FALSE,
                    !.morseCompleteRequest = TRUE ]
    ELSE LET seg == f.morseSeq[f.morseSeqPos + 1]
             f1  == IF f.morseUnitsLeft = 0
                    THEN [ f EXCEPT !.morseSeqPos = @ + 1,
                                    !.morseCurrentKey = IF seg > 0 THEN 1 ELSE 0,
                                    !.morseUnitsLeft =
                                        IF seg > 0 THEN seg ELSE -seg ]
                    ELSE f
         IN  [ f1 EXCEPT !.Key = f1.morseCurrentKey,
                         !.morseUnitsLeft = @ - 1 ]

\* setup(): mode = RX, both pins low, TxMessNo = 0, TxInit(); no timer runs
InitMorseTx ==
    /\ InitRx
    /\ fx = [ op |-> "morsetx", mode |-> "RX", TXPIN |-> 0, KEYPIN |-> 0,
              Key |-> 0, lastKey |-> 0,
              visual |-> TxInitVisual(MsgLocator, Locator),
              TxBuffer |-> TxInitBuffer(MsgLocator, Locator),
              TxPointer |-> 0, TxBitPointer |-> 0, TxSent |-> FALSE,
              TxCharSent |-> 0, timer |-> FALSE, period |-> "none",
              morseTxMode |-> FALSE, morseCompleteRequest |-> FALSE,
              morseSeq |-> << >>, morseSeqPos |-> 0, morseUnitsLeft |-> 0,
              morseCurrentKey |-> 0,
              started |-> FALSE, keyed |-> << >>, pps |-> 0 ]

\* handleCommand "CMD:morsetx:<text>", with an OOK-like app
CmdMorseTx ==
    /\ fx.op = "morsetx" /\ ~fx.started
    /\ \E text \in MorseTexts :
          /\ Len(buildMorseSequence(text)) > 0
          /\ fx' = [ fx EXCEPT !.morseSeq = buildMorseSequence(text),
                               !.morseTxMode = TRUE,
                               !.morseCompleteRequest = FALSE,
                               !.morseSeqPos = 0, !.morseUnitsLeft = 0,
                               !.morseCurrentKey = 0, !.mode = "TX",
                               !.TXPIN = 1, !.Key = 0, !.timer = TRUE,
                               !.period = "morseUnitUs", !.started = TRUE ]
    /\ UNCHANGED rxVars

\* TxIntervalInterrupt: morseTick in a Morse transmission, else TxSymbol;
\* keyed records the level each interrupt leaves on Key
MorseTxInterval ==
    /\ fx.op = "morsetx" /\ fx.timer /\ ~fx.morseCompleteRequest
    /\ LET f == IF fx.morseTxMode THEN morseTick(fx)
                ELSE IF fx.mode = "TX" THEN TxSymbolBody(fx) ELSE fx
       IN  fx' = [ f EXCEPT !.keyed = Append(@, f.Key) ]
    /\ UNCHANGED rxVars

\* ppsISR -> doPPS in TX mode: the symbol timer is re-armed at TXINTERVAL and
\* TxSymbol() is called; in RX mode doPPS restarts the receiver only
MorseTxPps ==
    /\ fx.op = "morsetx" /\ fx.pps < MaxPps
    /\ IF fx.mode = "TX"
       THEN LET f == TxSymbolBody([ fx EXCEPT !.timer = TRUE,
                                              !.period = "TXINTERVAL" ])
            IN  fx' = [ f EXCEPT !.keyed = Append(@, f.Key), !.pps = @ + 1 ]
       ELSE fx' = [ fx EXCEPT !.pps = @ + 1 ]
    /\ UNCHANGED rxVars

\* loop() in TX mode: TxTick, then the end of a Morse transmission
MorseTxLoop ==
    /\ fx.op = "morsetx" /\ fx.mode = "TX"
    /\ LET f == [ fx EXCEPT !.KEYPIN = fx.Key, !.lastKey = fx.Key,
                            !.TxSent = FALSE ]
       IN  fx' = IF fx.morseCompleteRequest
                 THEN [ f EXCEPT !.morseCompleteRequest = FALSE,
                                 !.mode = "RX", !.KEYPIN = 0, !.TXPIN = 0,
                                 !.Key = 0, !.timer = FALSE,
                                 !.period = "none" ]
                 ELSE f
    /\ UNCHANGED rxVars

NextMorseTx == CmdMorseTx \/ MorseTxInterval \/ MorseTxPps \/ MorseTxLoop

SpecMorseTx == InitMorseTx /\ [][NextMorseTx]_vars

---------------------------------------------------------------------------
(* SpecMorseOut: the way of a decoded Morse character to the host. Core 0  *)
(* runs RxTick in Morse mode: feed(), then for every CHAR or WORD_SEP      *)
(* event a write of morseDecoded and a push of MORSEMESSAGE; core 1 runs   *)
(* loop1(), which pops a tag and prints morseDecoded. The two cores share  *)
(* morseDecoded with no lock, so the write and the push are two steps.     *)
(* The decoder is Locked at 12.5 wpm and each feed call completes a space  *)
(* run behind a symbol.                                                    *)

\* feed calls that complete a run, in one run of the model
MaxFeeds == 2

MORSEMESSAGE == "MORSEMESSAGE"

\* the symbols the tracker may hold when a space run ends, and the lengths
\* of that run in frames: a character gap and a word gap at 3 frames a unit
HeldSymbols == { ".-", "-", "..." }

GapFrames == { 9, 21 }

\* the events of a feed call in which _trackStep is given a space run of
\* len frames while the symbol sym is held
gapEvents(sym, len) ==
    LET d == [ declareLocked(morseBegin, 25) EXCEPT
                 !.symbol = sym, !.events = << >>, !.formed = << >> ]
    IN  trackStep(d, 0, len).events

InitMorseOut ==
    /\ InitRx
    /\ fx = [ op |-> "mch", events |-> << >>, i |-> 1, pc |-> "feed",
              morseDecoded |-> "", queue |-> << >>, feeds |-> 0,
              sent |-> << >>, printed |-> << >> ]

\* RxTick: int n = morseDecoder.feed(...)
MchFeed ==
    /\ fx.op = "mch" /\ fx.pc = "feed" /\ fx.feeds < MaxFeeds
    /\ \E sym \in HeldSymbols, len \in GapFrames :
          fx' = [ fx EXCEPT !.events = gapEvents(sym, len), !.i = 1,
                            !.pc = "event", !.feeds = @ + 1 ]
    /\ UNCHANGED rxVars

\* RxTick: "morseDecoded = ev.ch;" for event i; sent records the character
MchStore ==
    /\ fx.op = "mch" /\ fx.pc = "event"
    /\ IF fx.i > Len(fx.events) THEN fx' = [ fx EXCEPT !.pc = "feed" ]
       ELSE IF fx.events[fx.i].kind \in { "CHAR", "WORD_SEP" }
       THEN fx' = [ fx EXCEPT !.morseDecoded = fx.events[fx.i].ch,
                              !.sent = Append(@, fx.events[fx.i].ch),
                              !.pc = "push" ]
       ELSE fx' = [ fx EXCEPT !.i = @ + 1 ]
    /\ UNCHANGED rxVars

\* RxTick: "rp2040.fifo.push(MORSEMESSAGE);"
MchPush ==
    /\ fx.op = "mch" /\ fx.pc = "push" /\ Len(fx.queue) < FifoDepth
    /\ fx' = [ fx EXCEPT !.queue = Append(@, MORSEMESSAGE), !.i = @ + 1,
                         !.pc = "event" ]
    /\ UNCHANGED rxVars

\* loop1: case MORSEMESSAGE: the line "MCH:" with morseDecoded
MchLine ==
    /\ fx.op = "mch" /\ fx.queue # << >>
    /\ fx' = [ fx EXCEPT !.queue = Tail(@),
                         !.printed = Append(@, fx.morseDecoded) ]
    /\ UNCHANGED rxVars

NextMorseOut == MchFeed \/ MchStore \/ MchPush \/ MchLine

SpecMorseOut == InitMorseOut /\ [][NextMorseOut]_vars

---------------------------------------------------------------------------
(* SpecTxMsg: the OOK48 transmitter on a message stored by SET:msg. Core 1 *)
(* handles SET:msg:0:<text> and CMD:tx; TxIntervalInterrupt and doPPS call *)
(* TxSymbol. TxBuffer and visualTxMessage are the arrays of 50 bytes, so a *)
(* byte beyond the encoded message is what the previous TxInit left there; *)
(* settings.txAdvance is 0 and the handlers are one step each.             *)

\* uint8_t TxBuffer[50]; char visualTxMessage[50]
TxBufferSize == 50

\* the model follows TxPointer up to this value
MaxPointer == 8

\* the texts of SET:msg:0:<text>: empty, "A", "A\r", "AB"
TxMsgTexts == { << >>, << 65 >>, << 65, CR >>, << 65, 66 >> }

\* an array of TxBufferSize bytes after bytes is written at its start, over
\* the contents old
writeAt(old, bytes) ==
    [ i \in 1 .. TxBufferSize |-> IF i <= Len(bytes) THEN bytes[i] ELSE old[i] ]

\* TxInit on the stored message: the two arrays, the length and the pointers
txInitMem(f, stored) ==
    [ f EXCEPT !.visual = writeAt(@, Append(TxInitVisual(stored, Locator), 0)),
               !.TxBuffer = writeAt(@, TxInitBuffer(stored, Locator)),
               !.TxMessLen = Len(TxInitBuffer(stored, Locator)),
               !.TxPointer = 0, !.TxBitPointer = 0 ]

\* TxSymbol() with mode == TX, on the arrays; used is the value of TxPointer
\* with which the bit was keyed or the character published
TxSymbolMem(f) ==
    LET wrapped == f.TxPointer = f.TxMessLen
        ptr     == wrapPointer(f.TxPointer, f.TxMessLen)
        bit     == IF wrapped THEN 0 ELSE f.TxBitPointer
        adv     == txAdvances(halfRate, gpsSec)
        f1      == IF bit = 8
                   THEN [ f EXCEPT !.Key = 0, !.timer = FALSE,
                                   !.TxCharSent = f.visual[ptr + 1],
                                   !.TxSent = IF adv THEN TRUE ELSE @ ]
                   ELSE [ f EXCEPT !.Key = keyOf(f.TxBuffer[ptr + 1], bit) ]
        f2      == [ f1 EXCEPT !.used = ptr, !.keyed = TRUE ]
    IN  IF bit + 1 > 8
        THEN [ f2 EXCEPT !.TxBitPointer = 0,
                         !.TxPointer = IF adv THEN ptr + 1 ELSE ptr ]
        ELSE [ f2 EXCEPT !.TxBitPointer = bit + 1, !.TxPointer = ptr ]

\* setup(): defaultSettings(), mode = RX, TxMessNo = 0, TxInit()
InitTxMsg ==
    /\ InitRx
    /\ fx = txInitMem([ op |-> "txmsg", mode |-> "RX", stored |-> MsgEmpty,
                        visual |-> [ i \in 1 .. TxBufferSize |-> 0 ],
                        TxBuffer |-> [ i \in 1 .. TxBufferSize |-> 0 ],
                        TxMessLen |-> 0, TxPointer |-> 0, TxBitPointer |-> 0,
                        Key |-> 0, timer |-> FALSE, TxSent |-> FALSE,
                        TxCharSent |-> 0, used |-> 0, keyed |-> FALSE ],
                      MsgEmpty)

\* handleCommand "SET:msg:0:<text>"
TxMsgSet ==
    /\ fx.op = "txmsg" /\ fx.mode = "RX"
    /\ \E text \in TxMsgTexts : fx' = [ fx EXCEPT !.stored = storeMessage(text) ]
    /\ UNCHANGED rxVars

\* handleCommand "CMD:tx" in RX mode: mode = TX, TxInit()
TxMsgStart ==
    /\ fx.op = "txmsg" /\ fx.mode = "RX"
    /\ fx' = txInitMem([ fx EXCEPT !.mode = "TX" ], fx.stored)
    /\ UNCHANGED rxVars

\* ppsISR -> doPPS in TX mode: the symbol timer is started and TxSymbol()
\* called
TxMsgPps ==
    /\ fx.op = "txmsg" /\ fx.mode = "TX" /\ ~fx.timer
    /\ fx.TxPointer < MaxPointer
    /\ fx' = TxSymbolMem([ fx EXCEPT !.timer = TRUE ])
    /\ UNCHANGED rxVars

\* TxIntervalInterrupt: TxSymbol()
TxMsgSymbol ==
    /\ fx.op = "txmsg" /\ fx.mode = "TX" /\ fx.timer
    /\ fx.TxPointer < MaxPointer
    /\ fx' = TxSymbolMem(fx)
    /\ UNCHANGED rxVars

NextTxMsg == TxMsgSet \/ TxMsgStart \/ TxMsgPps \/ TxMsgSymbol

SpecTxMsg == InitTxMsg /\ [][NextTxMsg]_vars

---------------------------------------------------------------------------
(* SpecTxLoc: TxInit on what SET:msg and SET:loclen accept. handleCommand   *)
(* takes every byte but CR and LF into the text of SET:msg, the locator     *)
(* token included. What is kept of TxInit is how far it writes: visualEnd   *)
(* and bufferEnd are the counts of bytes of visualTxMessage and TxBuffer    *)
(* from the start of the array to the last byte written.                    *)

\* the locator tokens at the head of a text of SET:msg
MaxTokens == 5

\* the letters that follow the tokens in the text
PlainLens == { 0, 1, 2, 24, 30, 33 }

\* qthLocator "IO91WM58AB" before it is cut to settings.locatorLength
QthLocator == << 73, 79, 57, 49, 87, 77, 53, 56, 65, 66 >>

LocatorLengths == { 6, 8, 10 }

\* the text of SET:msg:0:<text>: tokens locator tokens, then plain letters
tokenText(tokens, plain) ==
    [ i \in 1 .. tokens + plain |-> IF i <= tokens THEN LOCTOKEN ELSE 65 ]

\* "strncpy(settings.TxMessage[slot], text, 30); TxMessage[slot][30] = 0;"
\* and then storeMessage
storeMessage30(text) ==
    storeMessage(SubSeq(text, 1, IF Len(text) < 30 THEN Len(text) ELSE 30))

\* TxInit: replaceToken writes the message and its terminator from
\* visualTxMessage + 1 on, encode writes strlen(visualTxMessage) bytes
txInitExtent(f) ==
    LET visual == TxInitVisual(f.stored, SubSeq(QthLocator, 1, f.locatorLength))
    IN  [ f EXCEPT !.visualEnd = Len(visual) + 1, !.bufferEnd = Len(visual) ]

\* setup(): defaultSettings(), mode = RX, TxInit()
InitTxLoc ==
    /\ InitRx
    /\ fx = txInitExtent([ op |-> "txloc", mode |-> "RX", stored |-> MsgEmpty,
                           locatorLength |-> 8, visualEnd |-> 0,
                           bufferEnd |-> 0 ])

\* handleCommand "SET:msg:0:<text>"
TxLocSetMsg ==
    /\ fx.op = "txloc" /\ fx.mode = "RX"
    /\ \E tokens \in 0 .. MaxTokens, plain \in PlainLens :
          fx' = [ fx EXCEPT !.stored = storeMessage30(tokenText(tokens, plain)) ]
    /\ UNCHANGED rxVars

\* handleCommand "SET:loclen:<n>"
TxLocSetLoclen ==
    /\ fx.op = "txloc" /\ fx.mode = "RX"
    /\ \E l \in LocatorLengths : fx' = [ fx EXCEPT !.locatorLength = l ]
    /\ UNCHANGED rxVars

\* handleCommand "CMD:tx" in RX mode: mode = TX, TxInit()
TxLocStart ==
    /\ fx.op = "txloc" /\ fx.mode = "RX"
    /\ fx' = txInitExtent([ fx EXCEPT !.mode = "TX" ])
    /\ UNCHANGED rxVars

NextTxLoc == TxLocSetMsg \/ TxLocSetLoclen \/ TxLocStart

SpecTxLoc == InitTxLoc /\ [][NextTxLoc]_vars

---------------------------------------------------------------------------
(* SpecBits: the beacon decode pipeline from the tone cache to the bits    *)
(* handed to fano: findSync, extractBits and deInterleave, for JT4 and for *)
(* PI4. A cache entry is the label of a symbol, sync bit in bit 0 and data *)
(* bit in bit 1. The cache holds one message, begun at some offset, with   *)
(* zero labels around it.                                                  *)

JT4SYMBOLCOUNT == 207

PI4SYMBOLCOUNT == 146

overlap == 1

\* the offsets at which the message begins in the cache
MaxOffset == 34

JT4syncVector ==
    << 0, 0, 0, 0, 1, 1, 0, 0, 0, 1, 1, 0, 1, 1, 0, 0, 1, 0, 1, 0, 0, 0, 0,
       0, 0, 0, 1, 1, 0, 0, 0, 0, 0, 0, 0, 0, 0, 0, 0, 0, 1, 0, 1, 1, 0, 1,
       1, 0, 1, 0, 1, 1, 1, 1, 1, 0, 1, 0, 0, 0, 1, 0, 0, 1, 0, 0, 1, 1, 1,
       1, 1, 0, 0, 0, 1, 0, 1, 0, 0, 0, 1, 1, 1, 1, 0, 1, 1, 0, 0, 1, 0, 0,
       0, 1, 1, 0, 1, 0, 1, 0, 1, 0, 1, 0, 1, 1, 1, 1, 1, 0, 1, 0, 1, 0, 1,
       1, 0, 1, 0, 1, 0, 1, 1, 1, 0, 0, 1, 0, 1, 1, 0, 1, 1, 1, 1, 0, 0, 0,
       0, 1, 1, 0, 1, 1, 0, 0, 0, 1, 1, 1, 0, 1, 1, 1, 0, 1, 1, 1, 0, 0, 1,
       0, 0, 0, 1, 1, 0, 1, 1, 0, 0, 1, 0, 0, 0, 1, 1, 1, 1, 1, 1, 0, 0, 1,
       1, 0, 0, 0, 0, 1, 1, 0, 0, 0, 1, 0, 1, 1, 0, 1, 1, 1, 1, 0, 1, 0, 1 >>

\* 145 values are given for the 146 entries; the last one is 0
PI4syncVector ==
    << 0, 0, 1, 0, 0, 1, 1, 1, 1, 0, 1, 0, 1, 0, 1, 0, 0, 1, 0, 0, 0, 1, 0,
       0, 0, 1, 1, 0, 0, 1, 1, 1, 1, 0, 0, 1, 1, 1, 1, 1, 0, 0, 1, 1, 0, 1,
       1, 1, 1, 0, 1, 0, 1, 1, 0, 1, 1, 0, 1, 0, 0, 0, 0, 0, 1, 1, 1, 1, 1,
       0, 1, 0, 1, 0, 0, 0, 0, 0, 1, 1, 1, 1, 1, 0, 1, 0, 0, 1, 0, 0, 1, 0,
       1, 0, 0, 0, 0, 1, 0, 0, 1, 1, 0, 0, 0, 0, 0, 1, 1, 0, 0, 0, 0, 1, 1,
       0, 0, 1, 1, 1, 0, 1, 1, 1, 0, 1, 1, 0, 1, 0, 1, 0, 1, 0, 0, 0, 0, 1,
       1, 1, 0, 0, 0, 0, 1, 0 >>

\* the de-interleave table of PI4
pi4di ==
    <<   0,  73,  37, 110,  19,  92,  55, 128,  10,  83,  46, 119,
        28, 101,  64, 137,   5,  78,  42, 115,  24,  97,  60, 133,
        15,  88,  51, 124,  33, 106,  69, 142,   3,  76,  40, 113,
        22,  95,  58, 131,  13,  86,  49, 122,  31, 104,  67, 140,
         8,  81,  44, 117,  26,  99,  62, 135,  17,  90,  53, 126,
        35, 108,  71, 144,   2,  75,  39, 112,  21,  94,  57, 130,
        12,  85,  48, 121,  30, 103,  66, 139,   7,  80,  43, 116,
        25,  98,  61, 134,  16,  89,  52, 125,  34, 107,  70, 143,
         4,  77,  41, 114,  23,  96,  59, 132,  14,  87,  50, 123,
        32, 105,  68, 141,   9,  82,  45, 118,  27, 100,  63, 136,
        18,  91,  54, 127,  36, 109,  72, 145,   1,  74,  38, 111,
        20,  93,  56, 129,  11,  84,  47, 120,  29, 102,  65, 138,
         6,  79 >>

\* what the symbols of the message carry in their data bit
DataPatterns == { "alternate", "thirds" }

dataOf(pattern, k) ==
    IF pattern = "alternate" THEN k % 2 ELSE (IF k % 3 = 0 THEN 1 ELSE 0)

\* the settings of JT4Init and PI4Init
beaconApp(app) ==
    IF app = "JT4"
    THEN [ cacheSize |-> JT4CACHESIZE, symbolCount |-> JT4SYMBOLCOUNT,
           bitCount |-> JT4BITCOUNT, syncVector |-> JT4syncVector ]
    ELSE [ cacheSize |-> PI4CACHESIZE, symbolCount |-> PI4SYMBOLCOUNT,
           bitCount |-> PI4BITCOUNT, syncVector |-> PI4syncVector ]

\* BeaconToneCache[JT4CACHESIZE] with one message from entry offset on; the
\* first symbol of a JT4 message carries the sync bit only
messageCache(app, offset, pattern) ==
    LET a == beaconApp(app)
    IN  [ j \in 0 .. JT4CACHESIZE - 1 |->
            IF j >= offset /\ j < offset + a.symbolCount /\ j < a.cacheSize
            THEN a.syncVector[j - offset + 1]
                    + 2 * (IF app = "JT4" /\ j = offset THEN 0
                           ELSE dataOf(pattern, j - offset))
            ELSE 0 ]

\* syncErrorCount of findSync for the start index i
syncErrorCount(cache, a, i) ==
    Cardinality({ s \in 0 .. a.symbolCount - 1 :
                    a.syncVector[s + 1] # cache[i + s * overlap] % 2 })

\* JT4findSync, PI4findSync: the first start index of the least error count
\* among i = 0 .. cacheSize - symbolCount * overlap - 1
findSync(cache, a) ==
    LET starts == 0 .. a.cacheSize - a.symbolCount * overlap - 1
        errs   == [ i \in starts |-> syncErrorCount(cache, a, i) ]
    IN  CHOOSE i \in starts :
           \A h \in starts : errs[i] < errs[h] \/ (errs[i] = errs[h] /\ i <= h)

\* the entry of BeaconToneCache that JT4extractBits reads for bits[i]
JT4extractIndex(bestStartIndex, i) == bestStartIndex + i * overlap + overlap

\* PI4extractBits reading as JT4extractBits does
PI4extractIndexSkip(bestStartIndex, i) == bestStartIndex + i + 1

\* the entry of BeaconToneCache that PI4extractBits reads for bits[i]
PI4extractIndex(bestStartIndex, i) == bestStartIndex + i

extractIndex(app, bestStartIndex, i) ==
    IF app = "JT4" THEN JT4extractIndex(bestStartIndex, i)
    ELSE PI4extractIndex(bestStartIndex, i)

\* JT4extractBits, PI4extractBits: bits[i] = BeaconToneCache[...] >> 1; an
\* entry beyond the array is 0 here and is kept in reads
extractBits(app, cache, bestStartIndex) ==
    [ i \in 0 .. beaconApp(app).bitCount - 1 |->
        LET idx == extractIndex(app, bestStartIndex, i)
        IN  IF idx \in DOMAIN cache THEN cache[idx] \div 2 ELSE 0 ]

\* PI4deInterleave without the table
PI4deInterleaveNone(bits) == bits

\* PI4deInterleave: d[pi4di[i]] = bits[i] for i = 0 .. bitCount-1, an entry
\* written twice keeping the later value
PI4deInterleave(bits) ==
    [ j \in 0 .. PI4BITCOUNT - 1 |->
        LET from == { i \in 0 .. PI4BITCOUNT - 1 : pi4di[i + 1] = j }
        IN  bits[CHOOSE i \in from : \A h \in from : h <= i] ]

\* JT4decodeCache / PI4decodeCache before findSync, on a cache of the family
InitBits ==
    /\ InitRx
    /\ \E app \in { "JT4", "PI4" }, offset \in 0 .. MaxOffset,
          pattern \in DataPatterns :
          fx = [ op |-> "bits", app |-> app, pc |-> "sync",
                 cache |-> messageCache(app, offset, pattern),
                 offset |-> offset, bestStartIndex |-> 0,
                 bits |-> << >>, d |-> << >> ]

\* bestStartIndex = JT4findSync() / PI4findSync()
BitsFindSync ==
    /\ fx.op = "bits" /\ fx.pc = "sync"
    /\ fx' = [ fx EXCEPT !.pc = "extract",
                         !.bestStartIndex = findSync(fx.cache, beaconApp(fx.app)) ]
    /\ UNCHANGED rxVars

\* JT4extractBits(bestStartIndex, bits) / PI4extractBits(bestStartIndex, bits)
BitsExtract ==
    /\ fx.op = "bits" /\ fx.pc = "extract"
    /\ fx' = [ fx EXCEPT !.pc = "deinterleave",
                         !.bits = extractBits(fx.app, fx.cache, fx.bestStartIndex) ]
    /\ UNCHANGED rxVars

\* JT4deInterleave(bits) / PI4deInterleave(bits)
BitsDeInterleave ==
    /\ fx.op = "bits" /\ fx.pc = "deinterleave"
    /\ fx' = [ fx EXCEPT !.pc = "decode",
                         !.d = IF fx.app = "JT4"
                               THEN LET b == JT4deInterleave(
                                               [ i \in 1 .. JT4BITCOUNT |->
                                                   fx.bits[i - 1] ])
                                    IN  [ j \in 0 .. JT4BITCOUNT - 1 |-> b[j + 1] ]
                               ELSE PI4deInterleave(fx.bits) ]
    /\ UNCHANGED rxVars

NextBits == BitsFindSync \/ BitsExtract \/ BitsDeInterleave

SpecBits == InitBits /\ [][NextBits]_vars

---------------------------------------------------------------------------
(* SpecMorseTable: a text keyed from the transmit table and its patterns   *)
(* looked up in the receive table, one character at a time.                *)

\* characters in a text
MaxTableText == 2

\* the characters that the transmit table holds
MorseMapChars == { e[1] : e \in MorseMap }

InitMorseTable ==
    /\ InitRx
    /\ \E n \in 1 .. MaxTableText : \E text \in [ 1 .. n -> MorseMapChars ] :
          fx = [ op |-> "table", pc |-> "key", text |-> text, pos |-> 1,
                 pattern |-> "", received |-> << >> ]

\* the transmitter: loadMorseSymbolsForChar takes morsePatternForChar(c)
TableKey ==
    /\ fx.op = "table" /\ fx.pc = "key" /\ fx.pos <= Len(fx.text)
    /\ fx' = [ fx EXCEPT !.pc = "decode",
                         !.pattern = morsePatternForChar(fx.text[fx.pos]) ]
    /\ UNCHANGED rxVars

\* the receiver: _emitSymbol takes _morseToChar(_symbol) of the dots and
\* dashes received
TableDecode ==
    /\ fx.op = "table" /\ fx.pc = "decode"
    /\ fx' = [ fx EXCEPT !.pc = "key", !.pos = @ + 1,
                         !.received = Append(@, morseToChar(fx.pattern)) ]
    /\ UNCHANGED rxVars

NextMorseTable == TableKey \/ TableDecode

SpecMorseTable == InitMorseTable /\ [][NextMorseTable]_vars

---------------------------------------------------------------------------
(* SpecRing: a MorsRing<T, N> under push and clear. pushed keeps what has  *)
(* been pushed since the last clear, for the claims to compare with.       *)

\* N of the ring
RingN == 3

\* calls of push and clear in one run
MaxRingOps == 7

RingValues == { 1, 2 }

\* MorsRing::push with head left where it is when the ring is full
ringPushStuck(r, v) ==
    [ r EXCEPT !.data[(r.head + r.cnt) % RingN] = v,
               !.cnt = IF r.cnt < RingN THEN r.cnt + 1 ELSE r.cnt ]

\* MorsRing::push
ringPush(r, v) ==
    [ r EXCEPT !.data[(r.head + r.cnt) % RingN] = v,
               !.cnt = IF r.cnt < RingN THEN r.cnt + 1 ELSE r.cnt,
               !.head = IF r.cnt < RingN THEN r.head
                        ELSE (r.head + 1) % RingN ]

\* MorsRing::operator[]
ringAt(r, i) == r.data[(r.head + i) % RingN]

\* MorsRing::clear: data[] keeps what it held
ringClear(r) == [ r EXCEPT !.head = 0, !.cnt = 0 ]

\* MorsRing::size
ringSize(r) == r.cnt

\* a ring as constructed: head 0, cnt 0, data[] not initialised (any values)
InitRing ==
    /\ InitRx
    /\ \E data \in [ 0 .. RingN - 1 -> RingValues ] :
          fx = [ op |-> "ring", ring |-> [ data |-> data, head |-> 0, cnt |-> 0 ],
                 pushed |-> << >>, ops |-> 0 ]

RingPush ==
    /\ fx.op = "ring" /\ fx.ops < MaxRingOps
    /\ \E v \in RingValues :
          fx' = [ fx EXCEPT !.ring = ringPush(@, v), !.pushed = Append(@, v),
                            !.ops = @ + 1 ]
    /\ UNCHANGED rxVars

RingClear ==
    /\ fx.op = "ring" /\ fx.ops < MaxRingOps
    /\ fx' = [ fx EXCEPT !.ring = ringClear(@), !.pushed = << >>,
                         !.ops = @ + 1 ]
    /\ UNCHANGED rxVars

NextRing == RingPush \/ RingClear

SpecRing == InitRing /\ [][NextRing]_vars

---------------------------------------------------------------------------
(* Claims about the receive path, under Spec                               *)

\* a step of doPPS: only doPPS restarts the DMA
DmaRestarted == dmaIdx # 0 /\ dmaIdx' = 0

\* a step in which RxTick goes on from its test of PPSActive into decodeCache
DecodeEntered == pc0 = "store" /\ pc0' = "decode"

\* a step in which RxTick pushes the MESSAGE tag
MessagePushed == pc0 = "message" /\ pc0' = "clear"

\* a step in which saveCache writes the spectrum in flight to column cachePoint
ColumnSaved == pc0 = "save" /\ pc0' = "inc"

\* the SFTMESSAGE and MESSAGE tags waiting in the fifo, in order
DecodeTags == SelectSeq(fifo, LAMBDA t : t \in { SFTMESSAGE, MESSAGE })

\* C1 (as stated): the MESSAGE tag is pushed only while PPSActive > 0, and
\* once three status ticks have passed with no PPS (hist.grace = 0) no
\* MESSAGE is pushed until the next PPS.
C1_AsStated ==
    [][ MessagePushed => (PPSActive > 0 /\ hist.grace > 0) ]_vars

\* C1 (corrected): decodeCache is entered only when RxTick's test finds
\* PPSActive > 0, which it never is before the first PPS nor once three
\* status ticks have completed without a PPS; SFTMESSAGE and MESSAGE are
\* pushed only by a decode so entered (a tick that brings PPSActive to 0
\* after the test does not stop it); and a frame that ends with
\* PPSActive = 0 pushes nothing while cachePoint still advances.
C1_DecodeOnlyIfPpsAtTest ==
    /\ [](PPSActive <= hist.grace)
    /\ [](gpsSec = -1 /\ hist.grace = 0 => DecodeTags = << >>)
    /\ [][ /\ DecodeEntered => (PPSActive > 0 /\ hist.grace > 0)
           /\ pc0' = "decode" => pc0 \in { "store", "decode" }
           /\ pc0' = "message" => pc0 \in { "decode", "message" }
           /\ Len(DecodeTags') > Len(DecodeTags) => pc0 \in { "decode", "message" }
           /\ (pc0 = "store" /\ PPSActive = 0 /\ pc0' # pc0)
                 => (pc0' = "clear" /\ cachePoint' = reg0 + 1 /\ fifo' = fifo)
       ]_vars

\* C1 witness: the PPS was there and then lost, three status ticks have
\* passed, and a frame has just ended at cachePoint = cacheSize with no decode
C1_Witness ==
    /\ gpsSec # -1 /\ ppsLost /\ hist.grace = 0 /\ PPSActive = 0
    /\ pc0 = "clear" /\ cachePoint = cacheSize
    /\ DecodeTags = << >>

\* C2 (as stated): every doPPS sets cachePoint to 0 when half-rate is off,
\* and under half-rate to 8 when gpsSec is odd and to 0 when it is even.
C2_AsStated ==
    [][ DmaRestarted =>
          cachePoint' = IF ~halfRate THEN 0
                        ELSE IF gpsSec % 2 = 1 THEN 8 ELSE 0 ]_vars

\* C2 (corrected): every doPPS, at once or after the rx retard delay, sets
\* cachePoint, whatever it held, to 0 when half-rate is off, and under
\* half-rate to 0 when gpsSec is odd and to 8 when it is even.
C2_OddZeroEvenEight ==
    [][ DmaRestarted =>
          cachePoint' = IF ~halfRate THEN 0
                        ELSE IF gpsSec % 2 = 1 THEN 0 ELSE 8 ]_vars

\* C2 witness: doPPS has just run under half-rate in an even second and left
\* the write index at 8
C2_Witness ==
    /\ dmaIdx = 0 /\ PPSActive = 3 /\ hist.grace = 3 /\ ~dmaReady
    /\ halfRate /\ gpsSec % 2 = 0 /\ gpsSec # lastSec - 1
    /\ cachePoint = 8

\* C3 (as stated): every column saveCache writes holds a spectrum of samples
\* taken wholly after the latest PPS, and the frames of a second go to the
\* slots of the character in step (frame k to slot k, or 8 + k), so that no
\* slot is skipped or left with older data.
C3_AsStated ==
    [][ ColumnSaved =>
          /\ magnitude.post
          /\ magnitude.idx < CACHESIZE => cachePoint % CACHESIZE = magnitude.idx
      ]_vars

\* C4 (as stated): when the decoder runs, every column 0..cacheSize-1 was
\* written by saveCache after the write index was last reset to 0; under
\* half-rate columns 0..7 in the second before and columns 8..15 in this one.
C4_AsStated ==
    pc0 = "decode" =>
       \A c \in 0 .. (cacheSize - 1) :
          IF halfRate /\ cacheSize = 2 * CACHESIZE
          THEN toneCache[c] = (IF c < CACHESIZE THEN "prev" ELSE "cur")
          ELSE toneCache[c] = "cur"

\* C5 (as stated): every frame that completes (cachePoint reaches cacheSize)
\* goes on to push one SFTMESSAGE and one MESSAGE.
C5_AsStated ==
    [][ (pc0 = "store" /\ pc0' # pc0 /\ reg0 + 1 = cacheSize)
           => pc0' = "decode" ]_vars

\* C5 (corrected): for every completed frame on which the decoder runs
\* (PPSActive > 0 at the frame's end) exactly one SFTMESSAGE and then one
\* MESSAGE are pushed, whether or not the confidence gate rejects the frame,
\* and the dispatcher takes the tags from the fifo in the order pushed, so an
\* SFTMESSAGE is always handled before the MESSAGE of its frame.
C5_SftThenMessage ==
    /\ [](\A i \in 1 .. (Len(DecodeTags) - 1) : DecodeTags[i] # DecodeTags[i + 1])
    /\ [](DecodeTags # << >> =>
             DecodeTags[Len(DecodeTags)] =
                (IF pc0 = "message" THEN SFTMESSAGE ELSE MESSAGE))
    /\ [][ /\ (pc0 = "decode" /\ pc0' # pc0)
                 => (pc0' = "message" /\ fifo' = Append(fifo, SFTMESSAGE))
           /\ (pc0 = "message" /\ pc0' # pc0)
                 => (pc0' = "clear" /\ fifo' = Append(fifo, MESSAGE))
           /\ fifo' # fifo
                 => \/ fifo # << >> /\ fifo' = Tail(fifo)
                    \/ Len(fifo') = Len(fifo) + 1
                         /\ SubSeq(fifo', 1, Len(fifo)) = fifo
       ]_vars

\* C5 witness: a frame the confidence gate rejected (decoded = <UNK>) has its
\* SFTMESSAGE and its MESSAGE in the fifo, in that order
C5_Witness ==
    /\ fifo = << SFTMESSAGE, MESSAGE >>
    /\ decoded = UNK
    /\ confidenceBelow(sftMagnitudes, DefaultThreshold)

\* core 0 is at a read of cacheSize: RxTick's "cachePoint == cacheSize" or
\* the loops of decodeCache
ReadsCacheSize == pc0 \in { "store", "decode" }

\* C16 (as stated): whenever core 0 reads cacheSize it holds the value of the
\* active mode, 8 with half-rate off and 16 with half-rate on, and so agrees
\* with the halfRate flag the same decode reads, whatever command core 1 is
\* handling.
C16_AsStated ==
    ReadsCacheSize =>
       cacheSize = (IF halfRate THEN CACHESIZE * 2 ELSE CACHESIZE)

\* a step of RxTick's "if ((millis() - lastDma) > 250) cachePoint = 0;" that
\* finds the 250 ms over
TimeoutReset == pc0 = "idle" /\ timedOut /\ cachePoint' = 0

\* RxTick goes on from its test of dmaReady and cachePoint to calcSpectrum
FrameTaken == pc0 = "idle" /\ pc0' # pc0

\* the tone cache has filled: the write index is at cacheSize and RxTick is
\* past the cachePoint++ that brought it there
CacheFull ==
    cachePoint = cacheSize /\ pc0 \in { "decode", "message", "clear", "idle" }

---------------------------------------------------------------------------
(* Claims about OOK48 transmit, under SpecTx                               *)

\* the second in progress was armed by doPPS in transmit mode at the start
\* of a character and no command has been handled in it
QuietArm == fx.op = "tx" /\ fx.arm.tx /\ fx.arm.quiet /\ fx.arm.aligned

\* the second in progress has run to its end and all handlers are done
SecondOver == fx.t = SymbolsPerSecond /\ txSettled

\* the eight periods keyed so far carry the bits of byte, MSB first, and the
\* ninth is key-up
KeyedMsbFirst(keyed, byte) ==
    \A i \in 1 .. Len(keyed) :
       keyed[i] = IF i <= 8 THEN KeyBit(byte, i - 1) ELSE 0

\* the symbol timer runs up to the ninth call of TxSymbol and not after it
TimerStopsAtNinth ==
    (fx.isr = "none" /\ fx.t < SymbolsPerSecond - 1 => fx.timer)
    /\ (fx.isr = "none" /\ fx.t >= SymbolsPerSecond - 1 => (~fx.timer /\ fx.Key = 0))

Advanced == fx.TxPointer = fx.arm.ptr + 1

\* the second before this one was such a transmit second too
QuietPrev == fx.prev.tx /\ fx.prev.quiet /\ fx.prev.aligned

C13_AsStated ==
    (fx.op = "tx" /\ fx.stopped) =>
       /\ fx.mode = "RX"
       /\ ~fx.timer
       /\ fx.KEYPIN = 0
       /\ fx.TXPIN = 0

---------------------------------------------------------------------------
(* Claims about the serial commands, under SpecCmd                         *)

\* C14 (as stated): once SET:app:v, v in 0..3, has been acknowledged and the
\* reboot it triggers has completed, the firmware has initialised and runs
\* application v.
C14_AsStated ==
    (fx.op = "cmd" /\ fx.boots > 0 /\ fx.pcC = "loop") =>
       (fx.running = fx.requested /\ fx.settings.app = fx.requested)

\* the values the interface documents for each SET command
Documented(c) ==
    /\ c.kind = "other" \/ c.arg.num
    /\ CASE c.kind = "loclen" -> c.arg.val \in { 6, 8, 10 }
         [] c.kind = "decmode" -> c.arg.val \in 0 .. 2
         [] c.kind \in { "txadv", "rxret" } -> c.arg.val \in 0 .. 999
         [] c.kind = "halfrate" -> c.arg.val \in { 0, 1 }
         [] c.kind = "morsewpm" -> c.arg.val \in 5 .. 40
         [] c.kind = "confidence" -> c.arg.val \in 0 .. 1000
         [] c.kind = "app" -> c.arg.val \in 0 .. 3
         [] c.kind = "msg" -> c.arg.val \in 0 .. 9 /\ c.text.given
         [] OTHER -> FALSE

\* the setting a command names holds the value sent
Applied(c) ==
    CASE c.kind = "loclen" -> fx.settings.locatorLength = c.arg.val
      [] c.kind = "decmode" -> fx.settings.decodeMode = c.arg.val
      [] c.kind = "txadv" -> fx.settings.txAdvance = c.arg.val
      [] c.kind = "rxret" -> fx.settings.rxRetard = c.arg.val
      [] c.kind = "halfrate" -> halfRate = (c.arg.val = 1)
      [] c.kind = "morsewpm" -> fx.settings.morseWpm = c.arg.val
      [] c.kind = "confidence" -> fx.settings.confidenceThreshold = c.arg.val
      [] c.kind = "app" -> fx.settings.app = c.arg.val
      [] c.kind = "msg" ->
           fx.settings.TxMessage[c.arg.val] = storeMessage(c.text.chars)
      [] OTHER -> FALSE

\* C15 (as stated): a SET command is acknowledged and applied if and only if
\* its value lies in the documented set; any other value and any unknown
\* command is answered with ERR: and changes no setting, mode or timer.
C15_AsStated ==
    (fx.op = "cmd" /\ fx.reply # "none") =>
       IF Documented(fx.cmd)
       THEN fx.reply = "ACK" /\ Applied(fx.cmd)
       ELSE fx.reply = "ERR"

---------------------------------------------------------------------------
(* Claims about the dispatch context, under SpecFrames                     *)

\* C17 (as stated): what core 1 reads while it handles the GENPLOT,
\* SFTMESSAGE or MESSAGE tag of frame N (magnitude, sftMagnitudes, decoded)
\* is frame N's data and nothing else, for every interleaving with core 0.
C17_AsStated ==
    (fx.op = "frames" /\ fx.cur.tag # "none") =>
       \A i \in 1 .. Len(fx.seen) : fx.seen[i] = fx.cur.of

---------------------------------------------------------------------------
(* Claims about the beacon receiver, under SpecBeacon                      *)

\* C18 (as stated): each completed spectrum appends one tone label and
\* advances the write index by one, every write stays inside the cache, and
\* when cache_size labels have been collected in a minute the decode runs
\* once and the write index returns to 0.
C18_AsStated ==
    fx.op = "beacon" =>
       /\ fx.cachePoint = fx.labels % fx.cacheSize
       /\ fx.cachePoint < fx.cacheSize
       /\ fx.decodes = fx.labels \div fx.cacheSize

---------------------------------------------------------------------------
(* Claims about the Fano decoder, under SpecFano                           *)

\* C19 (as stated): when the Fano decoder does not complete a path to the
\* last node (budget exhausted, or no node storage), the decode returns
\* false, unpack is not run and no JTMESSAGE is pushed.
C19_AsStated ==
    (fx.op = "fano" /\ fx.pc = "done" /\ ~fx.reached) =>
       (~fx.decodedOK /\ ~fx.unpacked /\ fx.pushed = << >>)

\* C20 (as stated): fano ends within maxcycles x nbits cycles and returns 0
\* exactly when the path reached the last node within that budget, -1
\* exactly when the budget ran out before the last node was reached.
C20_AsStated ==
    (fx.op = "fano" /\ fx.pc \in { "returned", "done" }) =>
       /\ fx.cycles <= fx.budget
       /\ fx.ret = 0 <=> fx.reached
       /\ fx.ret = -1 <=> ~fx.reached

---------------------------------------------------------------------------
(* Claims about the JT4 round trip, under SpecJT4                          *)

C34_AsStated ==
    (fx.op = "fano" /\ fx.pc = "loop" /\ fx.nbits = JT4Bits) =>
       /\ \A k \in 0 .. fx.nbits - 1 : \A j \in 1 .. 2 :
             symbolPair(k)[j] < JT4BITCOUNT
       /\ \A k \in 0 .. PI4Bits - 1 : \A j \in 1 .. 2 :
             symbolPair(k)[j] < PI4BITCOUNT

---------------------------------------------------------------------------
(* Claims about the beacon unpack routines, under SpecUnpack               *)

\* the JT4 alphabet: 0-9, A-Z, space, +, -, ., /, ?
JT4Alphabet == (48 .. 57) \cup (65 .. 90) \cup { 32, 43, 45, 46, 47, 63 }

\* C22 (as stated): for every decoder output passed to JT4unpack, the test
\* vector included, all 13 characters produced are of the JT4 alphabet.
C22_AsStated ==
    (fx.op = "unpack" /\ fx.pc = "jt4") =>
       /\ Len(fx.JTmessage) = 13
       /\ \A k \in 1 .. 13 : fx.JTmessage[k] \in JT4Alphabet

\* the PI4 alphabet: 0-9, A-Z, space, /
PI4Alphabet == (48 .. 57) \cup (65 .. 90) \cup { 32, 47 }

\* the digit a character of the PI4 alphabet stands for
pi4DigitOf(ch) ==
    CASE ch \in 48 .. 57 -> ch - 48
      [] ch \in 65 .. 90 -> ch - 65 + 10
      [] ch = 32 -> 36
      [] ch = 47 -> 37
      [] OTHER   -> 38

\* bit j of the 64-bit big-endian value of dec[0..7], shifted right by 22
ShiftedBit(dec, j) == BitOf(dec[8 - ((j + 22) \div 8)], (j + 22) % 8)

\* that value in limbs of 14 bits
ShiftedValue(dec) ==
    LET limb(m) == SumOver(0 .. 13,
                           [ j \in 0 .. 13 |->
                               ShiftedBit(dec, 14 * m + j) * Pow2(j) ])
    IN  << limb(2), limb(1), limb(0) >>

\* n * 38 + d on limbs
MulAdd38(n, d) ==
    LET c0 == n[3] * 38 + d
        c1 == n[2] * 38 + (c0 \div 16384)
        c2 == n[1] * 38 + (c1 \div 16384)
    IN  << c2, c1 % 16384, c0 % 16384 >>

\* the number whose base-38 digits, most significant first, are the
\* characters chars
RECURSIVE Base38(_, _)
Base38(chars, k) ==
    IF k = 0 THEN << 0, 0, 0 >>
    ELSE MulAdd38(Base38(chars, k - 1), pi4DigitOf(chars[k]))

\* 38^8 in limbs, and x + y on limbs
Pow38to8 == << 16196, 12908, 8448 >>

AddLimbs(x, y) ==
    LET c0 == x[3] + y[3]
        c1 == x[2] + y[2] + (c0 \div 16384)
    IN  << x[1] + y[1] + (c1 \div 16384), c1 % 16384, c0 % 16384 >>

Unpacked8 ==
    /\ fx.op = "unpack" /\ fx.pc = "pi4"

\* C23 (as stated): PI4unpack produces exactly eight characters, each of
\* 0-9, A-Z, space or '/', that are the base-38 digits, most significant
\* first, of the big-endian value of dec[0..7] shifted right by 22; the
\* all-zero input gives "00000000".
C23_AsStated ==
    Unpacked8 =>
       /\ Len(fx.PImessage) = 8
       /\ \A k \in 1 .. 8 : fx.PImessage[k] \in PI4Alphabet
       /\ Base38(fx.PImessage, 8) = ShiftedValue(fx.dec)
       /\ (\A k \in 1 .. 8 : fx.dec[k] = 0) =>
             fx.PImessage = [ k \in 1 .. 8 |-> 48 ]

\* C23 (amended): the eight characters are of the alphabet and are the
\* eight low-order base-38 digits of the shifted value: they are all of
\* its digits when it is below 38^8, and the digits of the value less 38^8
\* otherwise (a 42-bit value is below 2 x 38^8).
C23_LowEightDigits ==
    Unpacked8 =>
       /\ Len(fx.PImessage) = 8
       /\ \A k \in 1 .. 8 : fx.PImessage[k] \in PI4Alphabet
       /\ \/ Base38(fx.PImessage, 8) = ShiftedValue(fx.dec)
          \/ AddLimbs(Base38(fx.PImessage, 8), Pow38to8)
                = ShiftedValue(fx.dec)
       /\ (\A k \in 1 .. 8 : fx.dec[k] = 0) =>
             fx.PImessage = [ k \in 1 .. 8 |-> 48 ]

C23_Witness ==
    /\ Unpacked8
    /\ fx.dec = << 255, 255, 255, 0, 255, 0, 255, 255, 255, 0, 0, 0 >>
    /\ AddLimbs(Base38(fx.PImessage, 8), Pow38to8) = ShiftedValue(fx.dec)
    /\ Base38(fx.PImessage, 8) # ShiftedValue(fx.dec)

---------------------------------------------------------------------------
(* Claims about the Morse decoder, under SpecMorse                         *)

\* the decoder is in Locked and has not raised Lost for this lock, or it is
\* in Acquire and has raised one Lost for every lock
OneLostPerLock ==
    fx.losts = (IF fx.dec.state = "LOCKED" THEN fx.locks - 1 ELSE fx.locks)

\* C24: once the decoder is Locked, silence produces exactly one Lost event,
\* raised when the count of consecutive space frames exceeds 60 x unit_est
\* (so the decoder is never still Locked with more space frames than that
\* behind it), and from then on the decoder is in Acquire and emits no Char
\* or WordSep event before a new Locked event.
C24_AsStated ==
    fx.op = "morse" =>
       /\ fx.dec.state = "LOCKED" =>
             fx.quiet * 10000 <= MORS_LOST_TIMEOUT_DITS * fx.dec.unitEst
       /\ OneLostPerLock
       /\ fx.stray = 0

\* C25: the feed call that produces the Locked event delivers, after it and
\* in order, every character and word separator the replay of the buffered
\* runs forms, with none dropped.
C25_AsStated ==
    fx.op = "morse" =>
       ((\E i \in 1 .. Len(fx.dec.formed) : fx.dec.formed[i].kind = "LOCKED")
           => /\ fx.dec.formed[1].kind = "LOCKED"
              /\ fx.dec.events = fx.dec.formed)

\* every Locked event of the last feed call reports a wpm between 11 and 13
LockedWpmInRange ==
    \A i \in 1 .. Len(fx.dec.events) :
       fx.dec.events[i].kind = "LOCKED" =>
          /\ fx.dec.events[i].wpm >= 2 * 11
          /\ fx.dec.events[i].wpm <= 2 * 13

C31_AsStated ==
    [][ (/\ fx.op = "morse"
         /\ fx.dec.state = "LOCKED"
         /\ Len(fx.dec.symbol) > 0
         /\ countKind(fx'.dec.formed, "LOST") > 0)
           => countKind(fx'.dec.formed, "CHAR") > 0 ]_vars

\* the events events[i ..] of one feed call keep the order of the event
\* interface: Locked only while not locked, Lost only while locked, Char and
\* WordSep only while locked
RECURSIVE eventsAlternate(_, _, _)
eventsAlternate(events, i, locked) ==
    IF i > Len(events) THEN TRUE
    ELSE IF events[i].kind = "LOCKED"
    THEN ~locked /\ eventsAlternate(events, i + 1, TRUE)
    ELSE IF events[i].kind = "LOST"
    THEN locked /\ eventsAlternate(events, i + 1, FALSE)
    ELSE locked /\ eventsAlternate(events, i + 1, locked)

\* C32: Locked and Lost events alternate, beginning with Locked; Char and
\* WordSep events come only between a Locked event and the next Lost event;
\* a feed call that delivers Lost leaves the decoder in Acquire with an
\* empty run buffer and no pending symbol.
C32_EventsAlternate ==
    [][ fx.op = "morse" =>
          /\ eventsAlternate(fx'.dec.events, 1, fx.locks > fx.losts)
          /\ countKind(fx'.dec.events, "LOST") > 0 =>
                /\ fx'.dec.state = "ACQUIRE"
                /\ fx'.dec.runBuf = << >>
                /\ fx'.dec.symbol = "" ]_vars

\* a second Locked event, after a Lost event, with characters decoded
C32_Witness ==
    /\ fx.op = "morse" /\ fx.locks = 2 /\ fx.losts = 1
    /\ fx.dec.state = "LOCKED"
    /\ countKind(fx.dec.events, "CHAR") > 0


\* the dit length in frames (x 10000) of the speed wpm2 / 2: _ditFrames
lockedDit(wpm2) == (24 * MORSE_FRAME_RATE * 1000) \div wpm2

unitInPll(u, wpm2) ==
    /\ u >= (60 * lockedDit(wpm2)) \div 100
    /\ u <= (155 * lockedDit(wpm2)) \div 100

\* C38: while the decoder is Locked, unit_est lies within [0.60 x dit,
\* 1.55 x dit] of the locked wpm after every processed run: after each run
\* that a call of feed has handed to _trackStep, the runs replayed at lock
\* time included, and in the state the call leaves.
C38_UnitEstInsidePll ==
    fx.op = "morse" =>
       /\ \A i \in 1 .. Len(fx.dec.tracked) :
             unitInPll(fx.dec.tracked[i], fx.dec.lockedWpm)
       /\ fx.dec.state = "LOCKED" =>
             /\ unitInPll(fx.dec.unitEst, fx.dec.lockedWpm)
             /\ fx.dec.unitMin = (60 * lockedDit(fx.dec.lockedWpm)) \div 100
             /\ fx.dec.unitMax = (155 * lockedDit(fx.dec.lockedWpm)) \div 100

\* the tracker held at the lower limit by a run, away from the dit length
\* it locked at
C38_Witness ==
    /\ fx.op = "morse" /\ fx.dec.state = "LOCKED"
    /\ Len(fx.dec.tracked) = 1
    /\ fx.dec.tracked[1] = fx.dec.unitMin
    /\ fx.dec.unitEst = fx.dec.unitMin
    /\ fx.dec.unitEst < lockedDit(fx.dec.lockedWpm)

\* the runs replayed at lock time, each one leaving its unit_est
C38_ReplayWitness ==
    /\ fx.op = "morse" /\ fx.dec.state = "LOCKED"
    /\ countKind(fx.dec.events, "LOCKED") = 1
    /\ Len(fx.dec.tracked) = Len(fx.dec.runBuf)
    /\ Len(fx.dec.tracked) >= MORS_MIN_ACQUIRE_MARK_RUNS

\* the tracker held at the upper limit
C38_UpperWitness ==
    /\ fx.op = "morse" /\ fx.dec.state = "LOCKED"
    /\ Len(fx.dec.tracked) = 1
    /\ fx.dec.unitEst = fx.dec.unitMax

---------------------------------------------------------------------------
(* Claims about a one-shot Morse transmission, under SpecMorseTx            *)

\* the key level of each unit of the element sequence seq, in order, and
\* the release that ends the transmission
RECURSIVE keyLevels(_, _)
keyLevels(seq, i) ==
    IF i > Len(seq) THEN << 0 >>
    ELSE [ k \in 1 .. (IF seq[i] > 0 THEN seq[i] ELSE -seq[i]) |->
             IF seq[i] > 0 THEN 1 ELSE 0 ] \o keyLevels(seq, i + 1)

IsPrefix(s, t) == Len(s) <= Len(t) /\ SubSeq(t, 1, Len(s)) = s

\* C27: during a one-shot Morse transmission the key follows exactly the
\* element sequence built from the text, each element lasting its number of
\* units at the configured Morse unit time, and after the last element the
\* key is released and the firmware is back in RX, whatever PPS edges
\* arrive during the transmission.
C27_AsStated ==
    fx.op = "morsetx" /\ fx.started =>
       /\ IsPrefix(fx.keyed, keyLevels(fx.morseSeq, 1))
       /\ fx.timer => fx.period = "morseUnitUs"
       /\ fx.mode = "TX" => fx.timer
       /\ fx.mode = "RX" =>
             /\ fx.keyed = keyLevels(fx.morseSeq, 1)
             /\ fx.Key = 0 /\ fx.KEYPIN = 0

---------------------------------------------------------------------------
(* Claims about the Morse character lines, under SpecMorseOut              *)

\* C28: every Char or WordSep event of the decoder results in one MCH: line
\* that carries that event's own character, also when one feed call
\* produces several events: the lines printed so far are the characters of
\* the first events, in order, and one line is printed or waiting for each
\* event handed over.
C28_AsStated ==
    fx.op = "mch" =>
       /\ IsPrefix(fx.printed, fx.sent)
       /\ Len(fx.printed) + Len(fx.queue)
             = Len(fx.sent) - (IF fx.pc = "push" THEN 1 ELSE 0)

---------------------------------------------------------------------------
(* Claims about the transmit pointer, under SpecTxMsg                      *)

\* C29: whenever TxSymbol keys a bit or publishes a character,
\* 0 <= TxPointer < TxMessLen, so that only bytes of the message encoded
\* last are transmitted, for every stored message SET:msg accepts, the
\* empty one included.
C29_AsStated ==
    fx.op = "txmsg" /\ fx.keyed => fx.used >= 0 /\ fx.used < fx.TxMessLen

---------------------------------------------------------------------------
(* Claims about TxInit and the locator token, under SpecTxLoc               *)

\* C35: TxInit (leading CR, the stored message, the locator for each locator
\* token) writes no byte beyond the 50 bytes of visualTxMessage and of
\* TxBuffer, for every message SET:msg accepts and locator length 6, 8, 10.
C35_AsStated ==
    (fx.op = "txloc" /\ fx.mode = "TX") =>
       /\ fx.visualEnd <= TxBufferSize
       /\ fx.bufferEnd <= TxBufferSize

---------------------------------------------------------------------------
(* Claims about the beacon bit pipeline, under SpecBits                    *)

BitsExtracted == fx.op = "bits" /\ fx.pc \in { "deinterleave", "decode" }

\* every entry that extractBits reads is inside the beacon cache of the mode
ReadsInsideCache ==
    \A i \in 0 .. beaconApp(fx.app).bitCount - 1 :
       /\ extractIndex(fx.app, fx.bestStartIndex, i) >= 0
       /\ extractIndex(fx.app, fx.bestStartIndex, i) < beaconApp(fx.app).cacheSize

\* C36 as stated: for JT4 and for PI4, bits[i] is the data bit (label >> 1) of
\* cache[best_start + i + 1] for every i in [0, bit_count), and every entry
\* read is inside the beacon cache.
C36_AsStated ==
    BitsExtracted =>
       /\ \A i \in 0 .. beaconApp(fx.app).bitCount - 1 :
             /\ fx.bestStartIndex + i + 1 < JT4CACHESIZE
             /\ fx.bits[i] = fx.cache[fx.bestStartIndex + i + 1] \div 2
       /\ ReadsInsideCache

\* C36 as the code has it: JT4 skips the symbol at the sync position, bits[i]
\* is the data bit of cache[best_start + i + 1]; PI4 does not, bits[i] is the
\* data bit of cache[best_start + i]; every entry read is inside the cache.
C36_SkipInJT4Only ==
    BitsExtracted =>
       /\ \A i \in 0 .. beaconApp(fx.app).bitCount - 1 :
             fx.bits[i] = fx.cache[fx.bestStartIndex + i
                                     + (IF fx.app = "JT4" THEN 1 ELSE 0)] \div 2
       /\ ReadsInsideCache

\* a PI4 message found at the last start index that findSync tries, its bits
\* extracted as sent
C36_Witness ==
    /\ BitsExtracted /\ fx.app = "PI4"
    /\ fx.bestStartIndex = PI4CACHESIZE - PI4SYMBOLCOUNT - 1
    /\ fx.bestStartIndex = fx.offset
    /\ \A i \in 0 .. PI4BITCOUNT - 1 : fx.bits[i] = dataOf("alternate", i)


\* the de-interleave table of the mode, entry i of the code's array
diTable(app, i) == IF app = "JT4" THEN jt4di[i + 1] ELSE pi4di[i + 1]

\* the entries i of the table that write d[j]
writersOf(app, j) ==
    { i \in 0 .. beaconApp(app).bitCount - 1 : diTable(app, i) = j }

\* jt4di is a permutation of 0..205 and pi4di one of 0..145
TablesArePermutations ==
    /\ Len(jt4di) = JT4BITCOUNT
    /\ Len(pi4di) = PI4BITCOUNT
    /\ \A app \in { "JT4", "PI4" } :
          /\ \A i \in 0 .. beaconApp(app).bitCount - 1 :
                diTable(app, i) \in 0 .. beaconApp(app).bitCount - 1
          /\ \A j \in 0 .. beaconApp(app).bitCount - 1 :
                Cardinality(writersOf(app, j)) = 1

onesOf(f) == Cardinality({ i \in DOMAIN f : f[i] = 1 })

\* C37: the JT4 and PI4 de-interleave tables are permutations of 0..205 and
\* 0..145, so de-interleaving writes every element of d exactly once: bit i
\* lands at d[di[i]], every d[j] comes from exactly one bit, and d has as
\* many ones as the extracted bits.
C37_DeInterleavePermutes ==
    /\ TablesArePermutations
    /\ (fx.op = "bits" /\ fx.pc = "decode") =>
          /\ DOMAIN fx.d = 0 .. beaconApp(fx.app).bitCount - 1
          /\ \A i \in 0 .. beaconApp(fx.app).bitCount - 1 :
                fx.d[diTable(fx.app, i)] = fx.bits[i]
          /\ \A j \in 0 .. beaconApp(fx.app).bitCount - 1 :
                \E i \in writersOf(fx.app, j) : fx.d[j] = fx.bits[i]
          /\ onesOf(fx.d) = onesOf(fx.bits)

\* a de-interleaved message of either mode in which the order of the bits
\* has changed
C37_Witness ==
    /\ fx.op = "bits" /\ fx.pc = "decode"
    /\ fx.bestStartIndex = fx.offset
    /\ onesOf(fx.bits) > 0
    /\ fx.d # fx.bits

---------------------------------------------------------------------------
(* Claims about the two Morse tables, under SpecMorseTable                 *)

\* C39 as stated: for every character the transmitter can send (A-Z, 0-9 and
\* . , ? - / + =), the pattern of the transmit table is one that the receive
\* table maps back to the same character.
C39_AsStated ==
    fx.op = "table" =>
       \A i \in 1 .. Len(fx.received) : fx.received[i] = fx.text[i]

---------------------------------------------------------------------------
(* Claims about MorsRing, under SpecRing                                   *)

\* C40: after any sequence of push and clear, a MorsRing of capacity N holds
\* the most recent min(k, N) values of the k pushed since the last clear, in
\* push order, with 0 <= size <= N and 0 <= head < N, element i being read
\* from data[(head + i) mod N].
C40_RingHoldsMostRecent ==
    fx.op = "ring" =>
       LET k    == Len(fx.pushed)
           held == IF k < RingN THEN k ELSE RingN
       IN  /\ ringSize(fx.ring) \in 0 .. RingN
           /\ fx.ring.head \in 0 .. RingN - 1
           /\ ringSize(fx.ring) = held
           /\ \A i \in 0 .. held - 1 :
                 /\ ringAt(fx.ring, i) = fx.pushed[k - held + i + 1]
                 /\ ringAt(fx.ring, i) = fx.ring.data[(fx.ring.head + i) % RingN]

\* a ring that has wrapped after a clear: more than N values pushed since,
\* head away from 0, the oldest and the newest value held differing
C40_Witness ==
    /\ fx.op = "ring"
    /\ fx.ops > Len(fx.pushed)
    /\ Len(fx.pushed) > RingN
    /\ fx.ring.head # 0
    /\ ringAt(fx.ring, 0) # ringAt(fx.ring, RingN - 1)

---------------------------------------------------------------------------
(* Claims about the codec, under SpecCodec                                 *)

Uppercase(ch) == IF ch >= 97 /\ ch <= 122 THEN ch - 32 ELSE ch

\* C8: for every character ch in 0x20..0x5F and every lower-case letter
\* 0x61..0x7A, the byte encode() gives for ch, keyed MSB first and
\* hard-decoded (the four key-down slots set the bits of dec, slot 0 the MSB,
\* then decode4from8[dec]), comes back as uppercase(ch).
C8_RoundTripUppercase ==
    ( /\ fx.op = "char"
      /\ fx.phase = "decoded"
      /\ (fx.ch \in 32 .. 95 \/ fx.ch \in 97 .. 122) )
    => /\ fx.out = Uppercase(fx.ch)
       /\ decode4from8[fx.byte + 1] = Uppercase(fx.ch)
       /\ PopCount(fx.byte) = 4

\* a lower-case 'q' was encoded, keyed and decoded as 'Q'
C8_Witness ==
    /\ fx.op = "char"
    /\ fx.phase = "decoded"
    /\ fx.ch = 113
    /\ fx.out = 81

\* C10 as stated: encoding "CQ TEST" CR through the alphabet table produces
\* the sequence {34, 50, 1, 53, 38, 54, 53, 0} (read as the bytes sent or as
\* the table indices used), and decoding gives back the message.
C10_AsStated ==
    ( /\ fx.op = "msg"
      /\ fx.stored = MsgCqTest
      /\ fx.phase = "encoded" )
    => \/ Tail(fx.TxBuffer) = << 34, 50, 1, 53, 38, 54, 53, 0 >>
       \/ Tail(fx.v) = << 34, 50, 1, 53, 38, 54, 53, 0 >>

\* C10 amended: TxInit on the stored message "CQ TEST" CR uses, after the
\* leading CR it inserts, the table indices {36, 50, 1, 53, 38, 52, 53, 0},
\* which give the bytes {139, 172, 23, 180, 142, 178, 180, 15}; decoding every
\* transmitted byte gives back the visual message CR "CQ TEST" CR.
C10_CqTestBytes ==
    ( /\ fx.op = "msg"
      /\ fx.stored = MsgCqTest
      /\ fx.phase = "encoded" )
    => /\ fx.visual = << CR >> \o MsgCqTest
       /\ fx.v = << 0, 36, 50, 1, 53, 38, 52, 53, 0 >>
       /\ fx.TxBuffer = << 15, 139, 172, 23, 180, 142, 178, 180, 15 >>
       /\ \A i \in 1 .. Len(fx.out) : fx.out[i] = fx.visual[i]

\* "CQ TEST" CR was encoded and every byte of it decoded
C10_Witness ==
    /\ fx.op = "msg"
    /\ fx.stored = MsgCqTest
    /\ fx.phase = "encoded"
    /\ Len(fx.out) = 9
    /\ fx.out = << 13, 67, 81, 32, 84, 69, 83, 84, 13 >>

---------------------------------------------------------------------------
(* Claims about decodeCache, under SpecDecode                              *)

\* the k-th largest (k = 0 the largest) of the eight magnitudes t
Ranked(t, k) ==
    CHOOSE v \in { t[i] : i \in Slots } :
        /\ Cardinality({ i \in Slots : t[i] > v }) <= k
        /\ Cardinality({ i \in Slots : t[i] >= v }) > k

\* confidence = (s[3] - s[4]) / (s[0] - s[7]), 0 when s[0] = s[7], is below
\* the threshold thr.num / thr.den
GateRejects(t, thr) ==
    IF Ranked(t, 0) = Ranked(t, 7) THEN 0 < thr.num
    ELSE (Ranked(t, 3) - Ranked(t, 4)) * thr.den
             < thr.num * (Ranked(t, 0) - Ranked(t, 7))

DecodeDone == fx.op = "decode" /\ fx.phase = "done"

\* C6: in every decode mode, when the confidence of the eight magnitudes is
\* below the configured threshold decodeCache sets decoded to 0x7E whatever
\* decode4from8[dec] holds; eight equal magnitudes always give 0x7E.
C6_LowConfidenceIsUnk ==
    DecodeDone =>
       /\ GateRejects(fx.sft, fx.thr) => fx.decoded = UNK
       /\ (\A i, j \in Slots : fx.sft[i] = fx.sft[j]) => fx.decoded = UNK

\* a rainscatter frame of unequal magnitudes was rejected by the gate although
\* its byte dec names a character of the table
C6_Witness ==
    /\ DecodeDone
    /\ fx.decodeMode = RAINSCATTERMODE
    /\ GateRejects(fx.sft, fx.thr)
    /\ \E i, j \in Slots : fx.sft[i] # fx.sft[j]
    /\ decode4from8[fx.dec + 1] \in 32 .. 95
    /\ fx.decoded = UNK

\* C7 as stated: every entry of encode4from8 has exactly four bits set, and
\* for every frame (all-zero frames and frames with ties included) the byte
\* dec built from the four largest values has exactly four bits set.
C7_AsStated ==
    DecodeDone =>
       /\ PopCount(fx.dec) = 4
       /\ \A k \in 1 .. 70 : PopCount(encode4from8[k]) = 4

\* C9: with half-rate on and columns 8..15 equal to columns 0..7, decodeCache
\* gives the decoded character and the gate outcome of a non-half-rate decode
\* of columns 0..7 alone, in every decode mode.
C9_HalfRateSameAsSingle ==
    ( /\ DecodeDone
      /\ fx.halfRate
      /\ \A b \in Bins, s \in Slots : fx.tc[b][s + 8] = fx.tc[b][s] )
    => LET single == softMagnitudes(fx.tc, fx.decodeMode, CACHESIZE, FALSE, 0)
       IN  /\ fx.decoded = decodeChar(single, fx.thr, NoJunk)
           /\ GateRejects(fx.sft, fx.thr) = GateRejects(single, fx.thr)

\* a half-rate frame of two equal seconds was decoded in alt mode to a
\* character of the alphabet, with interference in the adjacent bin
C9_Witness ==
    /\ DecodeDone
    /\ fx.halfRate
    /\ fx.decodeMode = ALTMODE
    /\ \A b \in Bins, s \in Slots : fx.tc[b][s + 8] = fx.tc[b][s]
    /\ \E s \in Slots : fx.tc[rxTone - toneTolerance][s] > 0
    /\ fx.decoded \in 32 .. 95

\* no byte of four bits has a 0 entry in decode4from8
FourBitBytesDecode ==
    \A b \in 0 .. 255 : PopCount(b) = 4 => decode4from8[b + 1] # 0

\* C33: when the confidence gate passes, dec has four bits, one at the
\* position 0x80 >> i of each of the four magnitudes that are strictly
\* larger than the other four, decode4from8[dec] is not 0 and is what is
\* published; no byte of four bits has a 0 entry in decode4from8.
C33_GatePassedDecodes ==
    /\ FourBitBytesDecode
    /\ (DecodeDone /\ ~GateRejects(fx.sft, fx.thr)) =>
          /\ PopCount(fx.dec) = 4
          /\ \A i \in Slots :
                BitOf(fx.dec, 7 - i) = 1 <=> fx.sft[i] > Ranked(fx.sft, 4)
          /\ decode4from8[fx.dec + 1] # 0
          /\ fx.decoded = decode4from8[fx.dec + 1]

\* a frame passed the gate with its fourth and fifth magnitudes both above
\* zero and was decoded to a character of the alphabet
C33_Witness ==
    /\ DecodeDone
    /\ ~GateRejects(fx.sft, fx.thr)
    /\ Ranked(fx.sft, 4) > 0
    /\ Ranked(fx.sft, 7) = 0
    /\ fx.decoded \in 32 .. 95

===========================================================================
